---- MODULE Spec2Model ----
(***************************************************************************)
(* A model of the Factom JSON-RPC client: the client handle and its        *)
(* constructors, the request envelope and its JSON encoding, the typed     *)
(* dispatch functions of entry.rs, identity.rs, tx.rs and wallet_utils.rs, *)
(* the HTTP exchange of Factom::inner_api_call and the two response        *)
(* decoders (Response of lib.rs, ApiResponse<T> of responses.rs).          *)
(*                                                                         *)
(* A text (a URI, the bytes of a request) is the sequence of its UTF-8     *)
(* bytes.  A byte is written as its character when that is a printable     *)
(* ASCII character other than the grave accent, and as its two hexadecimal *)
(* digits otherwise: <<"a","/","C3","A9">> is the text a/e with an acute   *)
(* accent on the e, "0A" is a line feed, "60" the grave accent.            *)
(* Formatting a URI and parsing it back, writing a request as JSON and     *)
(* reading it back, are so different computations.                         *)
(*                                                                         *)
(* A str that is a value of the program (an argument of a dispatch         *)
(* function, a method name, a key or a string of a JSON value) is a string *)
(* of this module, which holds the bytes of the str in turn: a tab, a line *)
(* feed, a form feed and a carriage return as that character, a tilde and  *)
(* every other byte without a character of its own as a tilde and the two  *)
(* hexadecimal digits of the byte ("~08" is the one byte 0x08, "~C3~A9" an *)
(* e with an acute accent, "~7E" a tilde), every other byte as its         *)
(* character.  Two strs are equal exactly when their strings are.          *)
(*                                                                         *)
(* A JSON value (serde_json::Value) is a record [str |-> s], [num |-> n],  *)
(* [obj |-> mapping], [arr |-> sequence], [lit |-> "null"] and so on.      *)
(***************************************************************************)
EXTENDS Integers, Sequences, FiniteSets, TLC

VARIABLES handle, calls, net

vars == <<handle, calls, net>>

(***************************************************************************)
(* Bounds of the model.                                                    *)
(***************************************************************************)
MaxCalls == 2
MaxAmount == 1
MaxHeight == 1
MaxRange == 2

(***************************************************************************)
(* Program constants, src/lib.rs:13-17.                                    *)
(***************************************************************************)
WALLET_URI == <<"h","t","t","p",":","/","/","l","o","c","a","l","h","o","s","t",":","8","0","8","8","/","v","2">>
FACTOMD_URI == <<"h","t","t","p",":","/","/","l","o","c","a","l","h","o","s","t",":","8","0","8","9","/","v","2">>
API_VERSION == 2
JSONRPC == "2.0"
ID == 0

(***************************************************************************)
(* Integer width of ApiError.code, an i16.  The id is a u32: a body's id is *)
(* modelled as a number the checker can hold, or as a number above         *)
(* u32::MAX (IdTooBig).                                                    *)
(***************************************************************************)
I16_MIN == -32768
I16_MAX == 32767

(***************************************************************************)
(* Text helpers.                                                           *)
(***************************************************************************)
Digits == <<"0","1","2","3","4","5","6","7","8","9">>

DigitSet == {"0","1","2","3","4","5","6","7","8","9"}

\* The sixteen digits a byte's name is written with.
Hex == Digits \o <<"A","B","C","D","E","F">>

RECURSIVE DecimalValue(_)
\* The number a text of digits denotes.
DecimalValue(t) ==
    IF t = <<>> THEN 0
    ELSE 10 * DecimalValue(SubSeq(t, 1, Len(t) - 1))
             + (CHOOSE d \in 0..9 : Digits[d + 1] = t[Len(t)])

RECURSIVE Display(_)
\* format!("{}", n) of an unsigned integer: its decimal digits.
Display(n) == IF n < 10 THEN <<Digits[n + 1]>>
              ELSE Display(n \div 10) \o <<Digits[(n % 10) + 1]>>

StartsWith(s, p) == /\ Len(s) >= Len(p)
                    /\ SubSeq(s, 1, Len(p)) = p

Drop(s, n) == SubSeq(s, n + 1, Len(s))

\* Index of the first position of s holding a character of cs, Len(s)+1 if none.
\* (The one element of {e(v) : v \in {x}} is e(x), with x computed once
\* however often e reads it.)
FirstOf(s, cs) ==
    CHOOSE r \in {IF \A i \in 1..Len(t) : t[i] \notin cs THEN Len(t) + 1
                  ELSE CHOOSE i \in 1..Len(t) : t[i] \in cs /\ \A j \in 1..(i - 1) : t[j] \notin cs :
                  t \in {s}} : TRUE

\* Index of the last position of s holding character ch, 0 if none.
LastOf(s, ch) ==
    CHOOSE r \in {IF \A i \in 1..Len(t) : t[i] # ch THEN 0
                  ELSE CHOOSE i \in 1..Len(t) : t[i] = ch /\ \A j \in (i + 1)..Len(t) : t[j] # ch :
                  t \in {s}} : TRUE

(***************************************************************************)
(* The client handle, src/lib.rs:88-114.                                   *)
(***************************************************************************)
\* Box::leak(s.into_boxed_str()): the same text with a static lifetime.
to_static_str(s) == s

HttpPrefix == <<"h","t","t","p",":","/","/">>
HttpsPrefix == <<"h","t","t","p","s",":","/","/">>

\* format!("http://{}:8088/v{}", host, API_VERSION) and its three siblings.
FormatUri(prefix, host, port) == prefix \o host \o <<":">> \o port \o <<"/","v">> \o Display(API_VERSION)

\* A variant with the two constants exchanged.
Factom_new_swapped == [uri |-> WALLET_URI, wallet_uri |-> FACTOMD_URI]

Factom_new == [uri |-> FACTOMD_URI, wallet_uri |-> WALLET_URI]

\* #[derive(Default)] on two &'static str fields: both are the empty string.
Factom_default == [uri |-> <<>>, wallet_uri |-> <<>>]

from_host(host) ==
    [uri |-> to_static_str(FormatUri(HttpPrefix, host, <<"8","0","8","8">>)),
     wallet_uri |-> to_static_str(FormatUri(HttpPrefix, host, <<"8","0","8","9">>))]

\* A variant that keeps the http scheme.
from_https_host_plain(host) ==
    [uri |-> to_static_str(FormatUri(HttpPrefix, host, <<"8","0","8","8">>)),
     wallet_uri |-> to_static_str(FormatUri(HttpPrefix, host, <<"8","0","8","9">>))]

from_https_host(host) ==
    [uri |-> to_static_str(FormatUri(HttpsPrefix, host, <<"8","0","8","8">>)),
     wallet_uri |-> to_static_str(FormatUri(HttpsPrefix, host, <<"8","0","8","9">>))]

(***************************************************************************)
(* uri.parse() of src/lib.rs:135: Uri::from_str of the http crate, on the  *)
(* bytes of the text.  src/ names no version of that crate: hyper 0.12,    *)
(* whose API lib.rs uses (lib.rs:7-8, 144-149), builds against http 0.1,   *)
(* and a build against today's crates links http 1.4.  Both parse a URI by *)
(* the same steps; the rules that read the version are those http gained   *)
(* after 0.1: a path may hold '{', '}' and the double quote, a path and a  *)
(* query may hold the bytes 0x7F..=0xFF, an authority is given up at its   *)
(* ninth colon, at a second '[', at a ']' without a '[' before it and at a *)
(* second ']'.  With http 0.1 an authority whose brackets are out of order *)
(* parses, and Uri::host panics on one whose host starts with a '[' that   *)
(* no ']' follows.                                                         *)
(***************************************************************************)
HttpVersions == {"0.1", "1.4"}

AlphaNum == {"0","1","2","3","4","5","6","7","8","9",
          "a","b","c","d","e","f","g","h","i","j","k","l","m","n","o","p","q","r","s","t",
          "u","v","w","x","y","z","A","B","C","D","E","F","G","H","I","J","K","L","M","N",
          "O","P","Q","R","S","T","U","V","W","X","Y","Z"}

\* The bytes with a non-zero entry in URI_CHARS: what an authority may hold
\* ('%' has a zero entry and a rule of its own).
UriChars == AlphaNum
                \cup {"!","#","$","&","'","(",")","*","+",",","-",".","/",":",";","=","?","@",
                      "[","]","_","~"}

\* The bytes 0x7F..=0xFF.
HighBytes == {"7F"} \cup {Hex[h] \o Hex[l] : h \in 9..16, l \in 1..16}

\* PathAndQuery::from_shared: the bytes a path may hold,
\* 0x21 | 0x24..=0x3B | 0x3D | 0x40..=0x5F | 0x61..=0x7A | 0x7C | 0x7E;
\* with http 1.4 also '"' '{' '}' and 0x7F..=0xFF.
PathByte(b, http) ==
    \/ b \in AlphaNum \cup {"!","$","%","&","'","(",")","*","+",",","-",".","/",":",";","=","@",
                            "[","\\","]","^","_","|","~"}
    \/ http = "1.4" /\ b \in {"\"","{","}"} \cup HighBytes

\* The bytes a query may hold, 0x21 | 0x24..=0x3B | 0x3D | 0x3F..=0x7E (the
\* grave accent 0x60 among them); with http 1.4 also 0x7F..=0xFF.
QueryByte(b, http) ==
    \/ b \in AlphaNum \cup {"!","$","%","&","'","(",")","*","+",",","-",".","/",":",";","=","?",
                            "@","[","\\","]","^","_","60","{","|","}","~"}
    \/ http = "1.4" /\ b \in HighBytes

\* The outcome of a failed parse.  (In a parsed Uri, query is an Option<&str>:
\* no element for None, one element for Some(text).)
NoUri == [ok |-> FALSE, scheme |-> <<>>, authority |-> <<>>, host |-> <<>>,
          host_panics |-> FALSE, port |-> <<>>, path |-> <<>>, query |-> <<>>]

\* Authority::parse.  Its loop runs over the bytes before the first '/', '?'
\* or '#' and keeps colon_cnt, start_bracket, end_bracket, has_percent and
\* at_sign_pos; ']' and '@' set colon_cnt to 0 and has_percent to FALSE.  The
\* locals are written here as functions of the position i the loop is about
\* to read (i = Len(auth) + 1: the loop is over).
LastReset(auth, i) == LET at == {j \in 1..(i - 1) : auth[j] \in {"]", "@"}}
                      IN IF at = {} THEN 0 ELSE CHOOSE j \in at : \A k \in at : j >= k

start_bracket(auth, i) == \E j \in 1..(i - 1) : auth[j] = "["

end_bracket(auth, i) == \E j \in 1..(i - 1) : auth[j] = "]"

has_percent(auth, i) == \E j \in (LastReset(auth, i) + 1)..(i - 1) : auth[j] = "%"

colon_cnt(auth, i) == Cardinality({j \in (LastReset(auth, i) + 1)..(i - 1) : auth[j] = ":"})

\* The error the loop returns when it reads byte i, "" when it goes on.
\* With http 0.1 a ':' and a ']' are no error and a '[' is one only after
\* a '%'; MAX_COLONS = 8 and the checks of the order of the brackets are
\* rules of http 1.4.
AuthorityErrorAt(auth, i, http) ==
    IF auth[i] = ":"
    THEN IF http = "1.4" /\ colon_cnt(auth, i) >= 8 THEN "InvalidAuthority" ELSE ""
    ELSE IF auth[i] = "["
    THEN IF has_percent(auth, i) \/ (http = "1.4" /\ start_bracket(auth, i))
         THEN "InvalidAuthority" ELSE ""
    ELSE IF auth[i] = "]"
    THEN IF http = "1.4" /\ (~start_bracket(auth, i) \/ end_bracket(auth, i))
         THEN "InvalidAuthority" ELSE ""
    ELSE IF auth[i] # "%" /\ auth[i] \notin UriChars THEN "InvalidUriChar"
    ELSE ""

\* The outcome of Authority::parse for the bytes auth the loop runs over:
\* the error of the first byte the loop stops at, or of one of the four
\* checks after the loop, or the number of bytes (end).
AuthorityResult(auth, http) ==
    LET end == Len(auth)
        stops == {i \in 1..end : AuthorityErrorAt(auth, i, http) # ""}
    IN IF stops # {}
       THEN [end |-> 0, err |-> AuthorityErrorAt(auth, CHOOSE i \in stops : \A j \in stops : i <= j, http)]
       ELSE IF start_bracket(auth, end + 1) # end_bracket(auth, end + 1)
       THEN [end |-> 0, err |-> "InvalidAuthority"]
       ELSE IF colon_cnt(auth, end + 1) > 1 THEN [end |-> 0, err |-> "InvalidAuthority"]
       ELSE IF end > 0 /\ auth[end] = "@" THEN [end |-> 0, err |-> "InvalidAuthority"]
       ELSE IF has_percent(auth, end + 1) THEN [end |-> 0, err |-> "InvalidAuthority"]
       ELSE [end |-> end, err |-> ""]

\* The authority ends at the first '/', '?' or '#'.
Authority_parse(s, http) ==
    CHOOSE r \in {AuthorityResult(auth, http) :
                      auth \in {SubSeq(s, 1, FirstOf(s, {"/", "?", "#"}) - 1)}} : TRUE

\* PathAndQuery::from_shared: the path runs to the first '?' or '#', the
\* query from the '?' to the first '#', the fragment is cut off.
PathAndQuery_from_shared(src, http) ==
    LET path_end == FirstOf(src, {"?", "#"})
        path == SubSeq(src, 1, path_end - 1)
        has_query == path_end <= Len(src) /\ src[path_end] = "?"
        after == Drop(src, path_end)
        query == SubSeq(after, 1, FirstOf(after, {"#"}) - 1)
    IN IF \E i \in 1..Len(path) : ~PathByte(path[i], http)
       THEN [ok |-> FALSE, path |-> <<>>, query |-> <<>>]
       ELSE IF has_query /\ \E i \in 1..Len(query) : ~QueryByte(query[i], http)
            THEN [ok |-> FALSE, path |-> <<>>, query |-> <<>>]
       ELSE [ok |-> TRUE, path |-> path, query |-> IF has_query THEN <<query>> ELSE <<>>]

\* host(auth) finds no ']' after the '[' its host starts with and panics
\* ("parsing should validate brackets"): what http 0.1 does for an authority
\* such as ]@[ ; http 1.4 parses no such authority.
Authority_host_panics(auth) ==
    LET host_port == Drop(auth, LastOf(auth, "@"))
    IN /\ host_port # <<>>
       /\ host_port[1] = "["
       /\ FirstOf(host_port, {"]"}) > Len(host_port)

\* The free function host(auth) of the http crate: the text after the last
\* '@', cut after its ']' when it starts with '[' and before its first ':'
\* otherwise (no text when it panics).
Authority_host(auth) ==
    LET host_port == Drop(auth, LastOf(auth, "@"))
    IN IF Authority_host_panics(auth) THEN <<>>
       ELSE IF host_port # <<>> /\ host_port[1] = "["
       THEN SubSeq(host_port, 1, FirstOf(host_port, {"]"}))
       ELSE SubSeq(host_port, 1, FirstOf(host_port, {":"}) - 1)

RECURSIVE DropZeros(_)
DropZeros(t) == IF t # <<>> /\ t[1] = "0" THEN DropZeros(Drop(t, 1)) ELSE t

\* str::parse::<u16>: an optional '+', then one digit or more, and a value
\* of at most 65535; -1 for a parse error.
parse_u16(t) ==
    LET digits == IF t # <<>> /\ t[1] = "+" THEN Drop(t, 1) ELSE t
    IN IF digits = <<>> \/ \E i \in 1..Len(digits) : digits[i] \notin DigitSet THEN -1
       ELSE CHOOSE r \in {IF Len(significant) > 5 THEN -1
                          ELSE CHOOSE n \in {IF value > 65535 THEN -1 ELSE value :
                                                 value \in {DecimalValue(significant)}} : TRUE :
                          significant \in {DropZeros(digits)}} : TRUE

\* Authority::port / Uri::port_u16, in decimal: the text after the last ':'
\* when it parses as a u16, no text for None.
Authority_port(auth) ==
    LET colon == LastOf(auth, ":")
    IN IF colon = 0 THEN <<>>
       ELSE CHOOSE r \in {IF port < 0 THEN <<>> ELSE Display(port) :
                              port \in {parse_u16(Drop(auth, colon))}} : TRUE

\* The Uri parse_full builds from the scheme, the text s after "://" and
\* the outcome of Authority::parse on s.
UriOf(scheme, s, authority_end, http) ==
    LET auth == SubSeq(s, 1, authority_end.end)
        rest == PathAndQuery_from_shared(Drop(s, authority_end.end), http)
    IN IF authority_end.err # "" \/ authority_end.end = 0 THEN NoUri
       ELSE IF ~rest.ok THEN NoUri
       ELSE [ok |-> TRUE,
             scheme |-> scheme,
             authority |-> auth,
             host |-> Authority_host(auth),
             host_panics |-> Authority_host_panics(auth),
             port |-> Authority_port(auth),
             path |-> IF rest.path = <<>> THEN <<"/">> ELSE rest.path,
             query |-> rest.query]

\* parse_full, after the scheme and "://" are split off.
ParseAfterScheme(scheme, s, http) ==
    CHOOSE r \in {CHOOSE u \in {UriOf(scheme, rest, authority_end, http) :
                                    authority_end \in {Authority_parse(rest, http)}} : TRUE :
                  rest \in {s}} : TRUE

\* Uri::from_shared: a text of more than MAX_LEN = 65534 bytes is too long,
\* an empty one is empty; a text with a scheme goes to parse_full.
ParseUri(s, http) ==
    IF Len(s) > 65534 THEN NoUri
    ELSE IF s = <<>> THEN NoUri
    ELSE IF StartsWith(s, HttpPrefix)
    THEN ParseAfterScheme(<<"h","t","t","p">>, Drop(s, Len(HttpPrefix)), http)
    ELSE IF StartsWith(s, HttpsPrefix)
    THEN ParseAfterScheme(<<"h","t","t","p","s">>, Drop(s, Len(HttpsPrefix)), http)
    ELSE NoUri

(***************************************************************************)
(* JSON values (serde_json::Value) and the params mapping                  *)
(* (HashMap<String, Value>).  A string of a value is a string of this      *)
(* module.                                                                 *)
(***************************************************************************)
JStr(s) == [str |-> s]
JNum(n) == [num |-> n]
JObj(m) == [obj |-> m]

IsObj(v) == "obj" \in DOMAIN v

\* HashMap::new()
EmptyMap == [k \in {} |-> JNum(0)]

\* HashMap::insert: the key is bound to the value, replacing an older binding.
insert(m, k, v) == [x \in (DOMAIN m) \cup {k} |-> IF x = k THEN v ELSE m[x]]

\* The name of byte n.
ByteName(n) ==
    IF n \in 32..95
    THEN SubSeq(" !\"#$%&'()*+,-./0123456789:;<=>?@ABCDEFGHIJKLMNOPQRSTUVWXYZ[\\]^_", n - 31, n - 31)
    ELSE IF n \in 97..126 THEN SubSeq("abcdefghijklmnopqrstuvwxyz{|}~", n - 96, n - 96)
    ELSE Hex[(n \div 16) + 1] \o Hex[(n % 16) + 1]

\* The byte a character of a string stands for.
CharByte(ch) ==
    CASE ch = "\t" -> "09"
      [] ch = "\n" -> "0A"
      [] ch = "\f" -> "0C"
      [] ch = "\r" -> "0D"
      [] OTHER -> ch

RECURSIVE BytesFrom(_, _)
\* The bytes of a string from its character i on: a tilde and the two
\* characters after it are one byte.
BytesFrom(v, i) ==
    IF i > Len(v) THEN <<>>
    ELSE IF SubSeq(v, i, i) = "~"
    THEN <<IF SubSeq(v, i + 1, i + 2) = "7E" THEN "~" ELSE SubSeq(v, i + 1, i + 2)>>
             \o BytesFrom(v, i + 3)
    ELSE <<CharByte(SubSeq(v, i, i))>> \o BytesFrom(v, i + 1)

\* str::as_bytes
Bytes(s) ==
    CHOOSE r \in
        {IF \A i \in 1..Len(v) : SubSeq(v, i, i) # "~"
         THEN [i \in 1..Len(v) |-> CharByte(SubSeq(v, i, i))]
         ELSE BytesFrom(v, 1) :
         v \in {s}} : TRUE

\* What a string holds for byte b.
StrByte(b) ==
    IF Len(b) = 1 THEN IF b = "~" THEN "~7E" ELSE b
    ELSE IF b = "09" THEN "\t"
    ELSE IF b = "0A" THEN "\n"
    ELSE IF b = "0C" THEN "\f"
    ELSE IF b = "0D" THEN "\r"
    ELSE "~" \o b

RECURSIVE StrOf(_)
\* String::from_utf8 of a sequence of bytes that is UTF-8.
StrOf(bytes) == IF bytes = <<>> THEN "" ELSE StrByte(bytes[1]) \o StrOf(Tail(bytes))

\* The byte of a name.
ByteCode == [b \in {ByteName(n) : n \in 0..255} |-> CHOOSE n \in 0..255 : ByteName(n) = b]

RECURSIVE BeforeFrom(_, _, _)
\* Byte sequences that agree before position i: a comes before b.
BeforeFrom(a, b, i) ==
    IF i > Len(b) THEN FALSE
    ELSE IF i > Len(a) THEN TRUE
    ELSE IF a[i] = b[i] THEN BeforeFrom(a, b, i + 1)
    ELSE ByteCode[a[i]] < ByteCode[b[i]]

\* Ord for str: the order of the bytes.
Before(s, t) == \E a \in {Bytes(s)}, b \in {Bytes(t)} : BeforeFrom(a, b, 1)

RECURSIVE Sorted(_)
\* The strings of a set in that order.
Sorted(ks) ==
    CHOOSE r \in
        {IF set = {} THEN <<>>
         ELSE CHOOSE r1 \in
             {<<least>> \o Sorted(set \ {least}) :
              least \in {CHOOSE k \in set : \A j \in set \ {k} : Before(k, j)}} : TRUE :
         set \in {ks}} : TRUE

Reverse(s) == [i \in 1..Len(s) |-> s[Len(s) + 1 - i]]

Rotate(s, r) == IF Len(s) = 0 THEN s
                ELSE [i \in 1..Len(s) |-> s[((i - 1 + r) % Len(s)) + 1]]

\* What a call draws from its environment: the order in which the HashMap
\* iterates over its keys (any order, chosen by the hasher's random state;
\* rot and rev give all permutations up to three keys), whether
\* HttpsConnector::new succeeds, and the http crate the build links.
Envs == [rot : 0..2, rev : BOOLEAN, tls : BOOLEAN, http : HttpVersions]

IterOrder(ks, env) == LET r == Rotate(Sorted(ks), env.rot)
                       IN IF env.rev THEN Reverse(r) ELSE r

(***************************************************************************)
(* Writing JSON: serde_json::to_string with its compact formatter.         *)
(***************************************************************************)
RECURSIVE Flatten(_)
Flatten(ss) == IF ss = <<>> THEN <<>> ELSE ss[1] \o Flatten(Tail(ss))

\* The bytes 0x00..=0x1F.
ControlBytes == {Hex[h] \o Hex[l] : h \in 1..2, l \in 1..16}

LowerHex == Digits \o <<"a","b","c","d","e","f">>

\* A variant of Escape that writes every byte as it is.
Escape_nothing(b) == <<b>>

\* The ESCAPE table of serde_json: what is written for one byte of a string.
Escape(b) ==
    CASE b = "\"" -> <<"\\", "\"">>
      [] b = "\\" -> <<"\\", "\\">>
      [] b = "08" -> <<"\\", "b">>
      [] b = "09" -> <<"\\", "t">>
      [] b = "0A" -> <<"\\", "n">>
      [] b = "0C" -> <<"\\", "f">>
      [] b = "0D" -> <<"\\", "r">>
      [] b \in ControlBytes \ {"08", "09", "0A", "0C", "0D"} ->
             <<"\\", "u", "0", "0",
               LowerHex[CHOOSE k \in 1..16 : Hex[k] = SubSeq(b, 1, 1)],
               LowerHex[CHOOSE k \in 1..16 : Hex[k] = SubSeq(b, 2, 2)]>>
      [] OTHER -> <<b>>

\* format_escaped_str: the string between quotes, byte by byte.
WriteString(s) ==
    CHOOSE r \in
        {<<"\"">> \o Flatten([i \in 1..Len(bytes) |-> Escape(bytes[i])]) \o <<"\"">> :
         bytes \in {Bytes(s)}} : TRUE

RECURSIVE WriteValue(_)
RECURSIVE WriteMembers(_, _)
\* The members of an object, in the order keys, separated by commas.
WriteMembers(keys, m) ==
    CHOOSE r \in
        {Flatten([i \in 1..Len(order) |->
                     (IF i > 1 THEN <<",">> ELSE <<>>)
                         \o WriteString(order[i]) \o <<":">> \o WriteValue(map[order[i]])]) :
         order \in {keys}, map \in {m}} : TRUE

\* Serialize for Value: a string, an unsigned or signed integer, or an
\* object, whose keys serde_json keeps sorted.
WriteValue(v) ==
    CHOOSE r \in
        {IF "str" \in DOMAIN value THEN WriteString(value.str)
         ELSE IF "num" \in DOMAIN value
         THEN IF value.num < 0 THEN <<"-">> \o Display(0 - value.num) ELSE Display(value.num)
         ELSE <<"{">> \o WriteMembers(Sorted(DOMAIN value.obj), value.obj) \o <<"}">> :
         value \in {v}} : TRUE

(***************************************************************************)
(* Reading JSON: serde_json::from_str.  The reader works on the bytes from *)
(* position i on and answers with the value read and the position after   *)
(* it.  What it reads is the text's tree: an object is the sequence of its *)
(* members <<key, tree, key_lone>> as written, an array the sequence of    *)
(* its elements, a number an integer the checker can hold ([num |-> n]), a *)
(* longer integer that an u64 or an i64 holds ([int |-> its text]) or an   *)
(* f64 ([float |-> its text, finite |-> whether an f64 holds it]).  A      *)
(* string is read into a string of this module.  The tree is that of a     *)
(* text serde_json passes over without decoding it (ignore_value, for a    *)
(* member no field takes): it may hold what the decoding of a value        *)
(* refuses, which Decodes tells.                                           *)
(***************************************************************************)
Fail == [ok |-> FALSE, v |-> [lit |-> "null"], at |-> 0]

Done(v, at) == [ok |-> TRUE, v |-> v, at |-> at]

Whitespace == {" ", "09", "0A", "0D"}

RECURSIVE SkipWs(_, _)
SkipWs(t, i) == IF i <= Len(t) /\ t[i] \in Whitespace THEN SkipWs(t, i + 1) ELSE i

RECURSIVE DigitsEnd(_, _)
\* The first position from i on that holds no digit.
DigitsEnd(t, i) == IF i <= Len(t) /\ t[i] \in DigitSet THEN DigitsEnd(t, i + 1) ELSE i

HexDigitValue == [c \in {Hex[k] : k \in 1..16} \cup {LowerHex[k] : k \in 1..16} |->
                     (CHOOSE k \in 1..16 : Hex[k] = c \/ LowerHex[k] = c) - 1]

\* The number the four hexadecimal digits from position i on denote, -1
\* when they are not four hexadecimal digits.
Hex4(t, i) ==
    IF i + 3 > Len(t) \/ \E j \in i..(i + 3) : t[j] \notin DOMAIN HexDigitValue THEN -1
    ELSE 4096 * HexDigitValue[t[i]] + 256 * HexDigitValue[t[i + 1]]
             + 16 * HexDigitValue[t[i + 2]] + HexDigitValue[t[i + 3]]

\* The UTF-8 encoding of code point cp, as a string.
Utf8(cp) ==
    StrOf(IF cp < 128 THEN <<ByteName(cp)>>
          ELSE IF cp < 2048 THEN <<ByteName(192 + (cp \div 64)), ByteName(128 + (cp % 64))>>
          ELSE IF cp < 65536
          THEN <<ByteName(224 + (cp \div 4096)), ByteName(128 + ((cp \div 64) % 64)),
                 ByteName(128 + (cp % 64))>>
          ELSE <<ByteName(240 + (cp \div 262144)), ByteName(128 + ((cp \div 4096) % 64)),
                 ByteName(128 + ((cp \div 64) % 64)), ByteName(128 + (cp % 64))>>)

RECURSIVE StringBody(_, _, _, _)
\* A string from the byte after its opening quote on; acc is what was read
\* of it.  A control byte ends the reading with an error, and so does an
\* escape that is none.  The escape of a surrogate without its partner is
\* passed over and makes the string lone: the decoding of a string refuses
\* it, ignore_str does not.
StringBody(t, i, acc, lone) ==
    IF i > Len(t) THEN Fail
    ELSE IF Len(t[i]) = 1 /\ t[i] # "\"" /\ t[i] # "\\" /\ t[i] # "~"
    THEN StringBody(t, i + 1, acc \o t[i], lone)
    ELSE IF t[i] = "\"" THEN Done([text |-> acc, lone |-> lone], i + 1)
    ELSE IF t[i] \in ControlBytes THEN Fail
    ELSE IF t[i] # "\\" THEN StringBody(t, i + 1, acc \o StrByte(t[i]), lone)
    ELSE IF i + 1 > Len(t) THEN Fail
    ELSE IF t[i + 1] \in {"\"", "\\", "/"} THEN StringBody(t, i + 2, acc \o t[i + 1], lone)
    ELSE IF t[i + 1] = "b" THEN StringBody(t, i + 2, acc \o StrByte("08"), lone)
    ELSE IF t[i + 1] = "f" THEN StringBody(t, i + 2, acc \o "\f", lone)
    ELSE IF t[i + 1] = "n" THEN StringBody(t, i + 2, acc \o "\n", lone)
    ELSE IF t[i + 1] = "r" THEN StringBody(t, i + 2, acc \o "\r", lone)
    ELSE IF t[i + 1] = "t" THEN StringBody(t, i + 2, acc \o "\t", lone)
    ELSE IF t[i + 1] # "u" THEN Fail
    ELSE CHOOSE r \in
        {IF hi < 0 THEN Fail
         ELSE IF hi \notin 55296..57343 THEN StringBody(t, i + 6, acc \o Utf8(hi), lone)
         ELSE CHOOSE r2 \in
             {IF lo < 0 THEN StringBody(t, i + 6, acc, TRUE)
              ELSE StringBody(t, i + 12, acc \o Utf8(65536 + ((hi - 55296) * 1024) + (lo - 56320)),
                              lone) :
              lo \in {IF /\ hi \in 55296..56319
                         /\ i + 7 <= Len(t)
                         /\ t[i + 6] = "\\"
                         /\ t[i + 7] = "u"
                         /\ Hex4(t, i + 8) \in 56320..57343
                      THEN Hex4(t, i + 8) ELSE -1}} : TRUE :
         hi \in {Hex4(t, i + 2)}} : TRUE

\* The position after the fraction that starts at e, e when there is none,
\* -1 when a '.' is followed by no digit.
FractionEnd(t, e) ==
    IF e > Len(t) \/ t[e] # "." THEN e
    ELSE IF DigitsEnd(t, e + 1) = e + 1 THEN -1
    ELSE DigitsEnd(t, e + 1)

\* The same for the exponent.
ExponentEnd(t, e) ==
    IF e > Len(t) \/ t[e] \notin {"e", "E"} THEN e
    ELSE CHOOSE r \in {IF DigitsEnd(t, k) = k THEN -1 ELSE DigitsEnd(t, k) :
                       k \in {IF e + 1 <= Len(t) /\ t[e + 1] \in {"+", "-"} THEN e + 2 ELSE e + 1}} : TRUE

\* u64::MAX, the magnitude of i64::MIN and i32::MAX, in digits.
U64_MAX == <<"1","8","4","4","6","7","4","4","0","7","3","7","0","9","5","5","1","6","1","5">>

I64_MIN_MAGNITUDE == <<"9","2","2","3","3","7","2","0","3","6","8","5","4","7","7","5","8","0","8">>

I32_MAX == <<"2","1","4","7","4","8","3","6","4","7">>

\* a < b for two numbers in digits without leading zeros (0 has no digit).
DigitsLess(a, b) == \/ Len(a) < Len(b)
                    \/ Len(a) = Len(b) /\ BeforeFrom(a, b, 1)

RECURSIVE Accumulate(_, _, _)
\* significand = significand * 10 + digit for the digits from position k
\* on, up to the first digit with which the significand overflows an u64:
\* the significand then, and the number of digits it took.
Accumulate(significand, digits, k) ==
    IF k > Len(digits) THEN [significand |-> significand, used |-> k - 1]
    ELSE CHOOSE r \in
        {IF DigitsLess(U64_MAX, next) THEN [significand |-> significand, used |-> k - 1]
         ELSE Accumulate(next, digits, k + 1) :
         next \in {DropZeros(Append(significand, digits[k]))}} : TRUE

\* The least significand s for which (s as f64) * POW10[exponent] is
\* infinite, for the exponents that have one below 2^64.
POW10_INFINITE ==
    [exponent \in 289..308 |->
        CASE exponent = 289 -> <<"1","7","9","7","6","9","3","1","3","4","8","6","2","3","1","5","6","2","2","5">>
          [] exponent = 290 -> <<"1","7","9","7","6","9","3","1","3","4","8","6","2","3","1","5","6","4","9">>
          [] exponent = 291 -> <<"1","7","9","7","6","9","3","1","3","4","8","6","2","3","1","6","0","0">>
          [] exponent = 292 -> <<"1","7","9","7","6","9","3","1","3","4","8","6","2","3","1","5","8">>
          [] exponent = 293 -> <<"1","7","9","7","6","9","3","1","3","4","8","6","2","3","1","6">>
          [] exponent = 294 -> <<"1","7","9","7","6","9","3","1","3","4","8","6","2","3","2">>
          [] exponent = 295 -> <<"1","7","9","7","6","9","3","1","3","4","8","6","2","4">>
          [] exponent = 296 -> <<"1","7","9","7","6","9","3","1","3","4","8","6","3">>
          [] exponent = 297 -> <<"1","7","9","7","6","9","3","1","3","4","8","7">>
          [] exponent = 298 -> <<"1","7","9","7","6","9","3","1","3","4","9">>
          [] exponent = 299 -> <<"1","7","9","7","6","9","3","1","3","5">>
          [] exponent = 300 -> <<"1","7","9","7","6","9","3","1","4">>
          [] exponent = 301 -> <<"1","7","9","7","6","9","3","2">>
          [] exponent = 302 -> <<"1","7","9","7","6","9","4">>
          [] exponent = 303 -> <<"1","7","9","7","7","0">>
          [] exponent = 304 -> <<"1","7","9","7","7">>
          [] exponent = 305 -> <<"1","7","9","8">>
          [] exponent = 306 -> <<"1","8","0">>
          [] exponent = 307 -> <<"1","8">>
          [] exponent = 308 -> <<"2">>]

\* f64_from_parts is Ok: the f64 made of the significand and the power of
\* ten is finite.  POW10 ends at 1e308; a smaller power only divides.
f64_from_parts(significand, exponent) ==
    IF significand = <<>> \/ exponent < 289 THEN TRUE
    ELSE IF exponent > 308 THEN FALSE
    ELSE DigitsLess(significand, POW10_INFINITE[exponent])

\* The exponent written in digits, as far as it matters: every exponent
\* above 308 is too large.
ExponentValue(digits) == IF Len(digits) > 6 THEN 1000000 ELSE DecimalValue(digits)

\* parse_integer and what it hands the number on to (parse_long_integer,
\* parse_decimal, parse_exponent), for a number that is not a short
\* integer: negative tells the '-', integer the digits before the '.',
\* fraction those after it, exponent those after the 'e' and its sign.  The
\* digits go into the significand while an u64 holds it; the integer digits
\* after that count into the exponent, the fraction digits after that are
\* dropped.
NumberOf(text, negative, integer, has_fraction, fraction, has_exponent, positive_exp, exponent) ==
    CHOOSE r \in
        {IF ~has_fraction /\ ~has_exponent /\ before.used = Len(integer)
         THEN IF ~negative THEN [int |-> text]
              ELSE IF before.significand = <<>> \/ DigitsLess(I64_MIN_MAGNITUDE, before.significand)
              THEN [float |-> text, finite |-> TRUE]
              ELSE [int |-> text]
         ELSE IF ~has_exponent
         THEN [float |-> text,
               finite |-> f64_from_parts(after.significand,
                                         (Len(integer) - before.used) - after.used)]
         ELSE IF DigitsLess(I32_MAX, DropZeros(exponent))
         THEN [float |-> text, finite |-> after.significand = <<>> \/ ~positive_exp]
         ELSE [float |-> text,
               finite |-> f64_from_parts(
                              after.significand,
                              IF positive_exp
                              THEN ((Len(integer) - before.used) - after.used)
                                       + ExponentValue(DropZeros(exponent))
                              ELSE ((Len(integer) - before.used) - after.used)
                                       - ExponentValue(DropZeros(exponent)))] :
         before \in {Accumulate(<<>>, integer, 1)},
         after \in {IF has_fraction
                    THEN Accumulate(Accumulate(<<>>, integer, 1).significand, fraction, 1)
                    ELSE [significand |-> Accumulate(<<>>, integer, 1).significand, used |-> 0]}} : TRUE

\* A number: an optional '-', then 0 or digits that do not start with 0,
\* then an optional fraction and an optional exponent.  -0 is a float.
ParseNumber(t, i) ==
    CHOOSE r \in
        {CHOOSE r1 \in
             {IF e1 = s \/ (t[s] = "0" /\ e1 > s + 1) THEN Fail
              ELSE CHOOSE r2 \in
                  {IF e2 < 0 THEN Fail
                   ELSE CHOOSE r3 \in
                       {IF e3 < 0 THEN Fail
                        ELSE IF e3 = e1 /\ e1 - s <= 9 /\ ~(s > i /\ t[s] = "0")
                        THEN IF s > i THEN Done(JNum(0 - DecimalValue(SubSeq(t, s, e1 - 1))), e1)
                             ELSE Done(JNum(DecimalValue(SubSeq(t, s, e1 - 1))), e1)
                        ELSE CHOOSE r4 \in
                            {Done(NumberOf(SubSeq(t, i, e3 - 1), s > i,
                                           SubSeq(t, s, e1 - 1),
                                           e2 > e1, SubSeq(t, e1 + 1, e2 - 1),
                                           e3 > e2, ~(e3 > e2 /\ t[e2 + 1] = "-"),
                                           SubSeq(t, digits, e3 - 1)), e3) :
                             digits \in {IF e3 > e2 /\ t[e2 + 1] \in {"+", "-"}
                                         THEN e2 + 2 ELSE e2 + 1}} : TRUE :
                        e3 \in {ExponentEnd(t, e2)}} : TRUE :
                   e2 \in {FractionEnd(t, e1)}} : TRUE :
              e1 \in {DigitsEnd(t, s)}} : TRUE :
         s \in {IF t[i] = "-" THEN i + 1 ELSE i}} : TRUE

RECURSIVE ParseValue(_, _)
RECURSIVE ParseMembers(_, _, _)
RECURSIVE ParseElements(_, _, _)
\* The members of an object from the first byte of a key on: a string, a
\* colon, a value, and then a comma and the next member, or the brace.
ParseMembers(t, i, acc) ==
    IF i > Len(t) \/ t[i] # "\"" THEN Fail
    ELSE CHOOSE r \in
        {IF ~key.ok \/ SkipWs(t, key.at) > Len(t) \/ t[SkipWs(t, key.at)] # ":" THEN Fail
         ELSE CHOOSE r1 \in
             {IF ~value.ok \/ SkipWs(t, value.at) > Len(t) THEN Fail
              ELSE IF t[SkipWs(t, value.at)] = "}"
              THEN Done([members |-> Append(acc, <<key.v.text, value.v, key.v.lone>>)],
                        SkipWs(t, value.at) + 1)
              ELSE IF t[SkipWs(t, value.at)] = ","
              THEN ParseMembers(t, SkipWs(t, SkipWs(t, value.at) + 1),
                                Append(acc, <<key.v.text, value.v, key.v.lone>>))
              ELSE Fail :
              value \in {ParseValue(t, SkipWs(t, SkipWs(t, key.at) + 1))}} : TRUE :
         key \in {StringBody(t, i + 1, "", FALSE)}} : TRUE

\* The elements of an array from the first byte of an element on.
ParseElements(t, i, acc) ==
    CHOOSE r \in
        {IF ~value.ok \/ SkipWs(t, value.at) > Len(t) THEN Fail
         ELSE IF t[SkipWs(t, value.at)] = "]"
         THEN Done([elements |-> Append(acc, value.v)], SkipWs(t, value.at) + 1)
         ELSE IF t[SkipWs(t, value.at)] = ","
         THEN ParseElements(t, SkipWs(t, SkipWs(t, value.at) + 1), Append(acc, value.v))
         ELSE Fail :
         value \in {ParseValue(t, i)}} : TRUE

\* One value from position i on, which holds no whitespace.
ParseValue(t, i) ==
    IF i > Len(t) THEN Fail
    ELSE IF t[i] = "[" THEN
        IF SkipWs(t, i + 1) <= Len(t) /\ t[SkipWs(t, i + 1)] = "]"
        THEN Done([elements |-> <<>>], SkipWs(t, i + 1) + 1)
        ELSE ParseElements(t, SkipWs(t, i + 1), <<>>)
    ELSE IF t[i] = "{" THEN
        IF SkipWs(t, i + 1) <= Len(t) /\ t[SkipWs(t, i + 1)] = "}"
        THEN Done([members |-> <<>>], SkipWs(t, i + 1) + 1)
        ELSE ParseMembers(t, SkipWs(t, i + 1), <<>>)
    ELSE IF t[i] = "\"" THEN
        CHOOSE r \in {IF ~string.ok THEN Fail
                      ELSE IF string.v.lone THEN Done([lone |-> string.v.text], string.at)
                      ELSE Done(JStr(string.v.text), string.at) :
                      string \in {StringBody(t, i + 1, "", FALSE)}} : TRUE
    ELSE IF t[i] \in DigitSet \cup {"-"} THEN ParseNumber(t, i)
    ELSE IF i + 3 <= Len(t) /\ SubSeq(t, i, i + 3) = <<"n","u","l","l">>
    THEN Done([lit |-> "null"], i + 4)
    ELSE IF i + 3 <= Len(t) /\ SubSeq(t, i, i + 3) = <<"t","r","u","e">>
    THEN Done([lit |-> "true"], i + 4)
    ELSE IF i + 4 <= Len(t) /\ SubSeq(t, i, i + 4) = <<"f","a","l","s","e">>
    THEN Done([lit |-> "false"], i + 5)
    ELSE Fail

\* One value, around it nothing but whitespace: the tree of the text.
ReadTree(t) ==
    CHOOSE r \in {IF value.ok /\ SkipWs(t, value.at) = Len(t) + 1 THEN value ELSE Fail :
                  value \in {ParseValue(t, SkipWs(t, 1))}} : TRUE

\* The depth the reader starts with (remaining_depth): an array or an
\* object at nesting depth 128 is refused.
RecursionLimit == 128

RECURSIVE Decodes(_, _)
\* A tree decodes as a value at nesting depth level: its arrays and objects
\* are nested below the limit, no string of it is lone and every number of
\* it is one an f64 holds.
Decodes(tree, level) ==
    \E node \in {tree}, depth \in {level} :
        IF "members" \in DOMAIN node
        THEN /\ depth < RecursionLimit
             /\ \A i \in 1..Len(node.members) :
                    ~node.members[i][3] /\ Decodes(node.members[i][2], depth + 1)
        ELSE IF "elements" \in DOMAIN node
        THEN /\ depth < RecursionLimit
             /\ \A i \in 1..Len(node.elements) : Decodes(node.elements[i], depth + 1)
        ELSE IF "lone" \in DOMAIN node THEN FALSE
        ELSE IF "float" \in DOMAIN node THEN node.finite
        ELSE TRUE

\* serde_json::from_str::<Value>
Read(t) ==
    CHOOSE r \in {IF tree.ok /\ Decodes(tree.v, 1) THEN tree ELSE Fail :
                  tree \in {ReadTree(t)}} : TRUE

\* The keys of an object that was read, and the last member of a key.
MemberKeys(t) == {t.members[i][1] : i \in 1..Len(t.members)}

LastIndex(t, k) == CHOOSE i \in 1..Len(t.members) :
                       /\ t.members[i][1] = k
                       /\ \A j \in (i + 1)..Len(t.members) : t.members[j][1] # k

RECURSIVE TextValue(_)
\* Deserialize for Value: an object becomes a map, in which the last member
\* of a key replaces the earlier ones, an array the sequence of its values.
TextValue(t) ==
    CHOOSE r \in
        {IF "members" \in DOMAIN tree
         THEN JObj([k \in MemberKeys(tree) |-> TextValue(tree.members[LastIndex(tree, k)][2])])
         ELSE IF "elements" \in DOMAIN tree
         THEN [arr |-> [i \in 1..Len(tree.elements) |-> TextValue(tree.elements[i])]]
         ELSE tree :
         tree \in {t}} : TRUE

\* Deserialize for HashMap<String, Value>, from an object that was read.
MapOfText(t) == TextValue(t).obj

(***************************************************************************)
(* The request envelope, src/lib.rs:42-69.                                 *)
(***************************************************************************)
ApiRequest_method(method) ==
    [jsonrpc |-> JSONRPC, id |-> ID, method |-> method, params |-> EmptyMap]

parameters(req, params) == [req EXCEPT !.params = params]

\* A variant that leaves out the last params member it iterates over.
to_json_drops_member(req, env) ==
    CHOOSE r \in
        {Bytes("{\"jsonrpc\":") \o WriteString(self.jsonrpc)
             \o Bytes(",\"id\":") \o Display(self.id)
             \o Bytes(",\"method\":") \o WriteString(self.method)
             \o Bytes(",\"params\":{")
             \o WriteMembers(SubSeq(order, 1, Len(order) - 1), self.params)
             \o Bytes("}}") :
         self \in {req}, order \in {IterOrder(DOMAIN req.params, env)}} : TRUE

\* serde_json::to_string(&self): the fields in declaration order, params as
\* the HashMap iterates.
to_json(req, env) ==
    CHOOSE r \in
        {Bytes("{\"jsonrpc\":") \o WriteString(self.jsonrpc)
             \o Bytes(",\"id\":") \o Display(self.id)
             \o Bytes(",\"method\":") \o WriteString(self.method)
             \o Bytes(",\"params\":{")
             \o WriteMembers(order, self.params)
             \o Bytes("}}") :
         self \in {req}, order \in {IterOrder(DOMAIN req.params, env)}} : TRUE

\* The number a text of ten digits or more denotes fits a u32.
FitsU32(digits) ==
    /\ Len(digits) = 10
    /\ digits[1] \in DigitSet
    /\ \/ DecimalValue(SubSeq(digits, 1, 9)) < 429496729
       \/ DecimalValue(SubSeq(digits, 1, 9)) = 429496729 /\ digits[10] \in {"0","1","2","3","4","5"}

\* What the derived Deserialize of ApiRequest makes of the four trees it
\* finds for its fields: jsonrpc and method decode as strings, id as a u32,
\* params as a map of values, one level below the struct.
ApiRequest_of(jsonrpc, id, method, params) ==
    IF /\ "str" \in DOMAIN jsonrpc
       /\ "str" \in DOMAIN method
       /\ "members" \in DOMAIN params
       /\ Decodes(params, 2)
       /\ \/ "num" \in DOMAIN id /\ id.num >= 0
          \/ "int" \in DOMAIN id /\ FitsU32(id.int)
    THEN [ok |-> TRUE,
          req |-> [jsonrpc |-> jsonrpc.str,
                   id |-> IF "num" \in DOMAIN id THEN id.num ELSE id.int,
                   method |-> method.str,
                   params |-> MapOfText(params)]]
    ELSE [ok |-> FALSE, req |-> ApiRequest_method("")]

\* serde_json::from_str::<ApiRequest>, the derived Deserialize of
\* src/lib.rs:42-48: the struct is read from an object in which each of the
\* four fields occurs once, or from an array of the four values in the
\* order of the fields.  Every key is decoded; the value of a member of
\* another name is passed over and not decoded (IgnoredAny).
from_json(t) ==
    CHOOSE r \in
        {IF ~read.ok THEN [ok |-> FALSE, req |-> ApiRequest_method("")]
         ELSE IF "members" \in DOMAIN read.v
         THEN IF /\ \A i \in 1..Len(read.v.members) : ~read.v.members[i][3]
                 /\ \A f \in {"jsonrpc", "id", "method", "params"} :
                        Cardinality({i \in 1..Len(read.v.members) : read.v.members[i][1] = f}) = 1
              THEN ApiRequest_of(read.v.members[LastIndex(read.v, "jsonrpc")][2],
                                 read.v.members[LastIndex(read.v, "id")][2],
                                 read.v.members[LastIndex(read.v, "method")][2],
                                 read.v.members[LastIndex(read.v, "params")][2])
              ELSE [ok |-> FALSE, req |-> ApiRequest_method("")]
         ELSE IF "elements" \in DOMAIN read.v /\ Len(read.v.elements) = 4
         THEN ApiRequest_of(read.v.elements[1], read.v.elements[2],
                            read.v.elements[3], read.v.elements[4])
         ELSE [ok |-> FALSE, req |-> ApiRequest_method("")] :
         read \in {ReadTree(t)}} : TRUE

\* The constructor the dispatch functions name ApiRequest::new.
ApiRequest_new(method) == ApiRequest_method(method)

\* req.params.insert(key, value)
params_insert(req, k, v) == [req EXCEPT !.params = insert(req.params, k, v)]

(***************************************************************************)
(* Factom::inner_api_call up to client.request(req), src/lib.rs:128-146,   *)
(* and its two callers.  The result is the HTTP request that is issued, or *)
(* a panic when the URI does not parse or the TLS connector cannot be set  *)
(* up.                                                                     *)
(***************************************************************************)
\* method, params and uri are the arguments of inner_api_call; the other
\* fields describe the hyper request as far as it was built: its body and
\* method are set before the URI is parsed, its URI and header before the
\* TLS connector is set up; wire is the body, the bytes of json_str.
NoRequest == [method |-> "", params |-> EmptyMap, uri |-> <<>>,
              panicked |-> FALSE, panic |-> "", http_method |-> "", dest |-> <<>>,
              target |-> NoUri, content_type |-> "", wire |-> <<>>]

inner_api_call(self, method, params, uri, env) ==
    CHOOSE future \in
        {LET args == [NoRequest EXCEPT !.method = method, !.params = params, !.uri = uri]
             req == [args EXCEPT !.wire = json_str, !.http_method = "POST"]
             addressed == [req EXCEPT !.dest = uri, !.target = target,
                                      !.content_type = "application/json"]
         IN IF ~target.ok
            THEN [req EXCEPT !.panicked = TRUE, !.panic = "Unable to parse URI"]
            ELSE IF ~env.tls
            THEN [addressed EXCEPT !.panicked = TRUE, !.panic = "TLS initialization failed"]
            ELSE addressed :
         json_str \in {to_json(parameters(ApiRequest_method(method), params), env)},
         target \in {ParseUri(uri, env.http)}} : TRUE

\* A variant that sends node-daemon calls to the wallet daemon.
call_to_wallet(self, method, params, env) ==
    LET uri == self.wallet_uri IN inner_api_call(self, method, params, uri, env)

call(self, method, params, env) ==
    LET uri == self.uri IN inner_api_call(self, method, params, uri, env)

walletd_call(self, method, params, env) ==
    LET uri == self.wallet_uri IN inner_api_call(self, method, params, uri, env)

\* The forms the dispatch functions use, taking the built request.
factomd_call(api, req, env) == call(api, req.method, req.params, env)

walletd_call_req(api, req, env) == walletd_call(api, req.method, req.params, env)

(***************************************************************************)
(* Arguments of the dispatch functions.                                    *)
(***************************************************************************)
None == [some |-> FALSE, v |-> ""]
Some(x) == [some |-> TRUE, v |-> x]

\* enum SearchBy, src/tx.rs:521-526
Range(start, end) == [variant |-> "Range", s |-> "", start |-> start, end |-> end]
Txid(t) == [variant |-> "Txid", s |-> t, start |-> 0, end |-> 0]
Address(a) == [variant |-> "Address", s |-> a, start |-> 0, end |-> 0]

(***************************************************************************)
(* src/entry.rs                                                            *)
(***************************************************************************)
commit_entry(api, message, env) ==
    LET req == params_insert(ApiRequest_new("commit-entry"), "message", JStr(message))
    IN factomd_call(api, req, env)

entry(api, hash, env) ==
    LET req == params_insert(ApiRequest_new("entry"), "hash", JStr(hash))
    IN factomd_call(api, req, env)

raw_data(api, hash, env) ==
    LET req == params_insert(ApiRequest_new("raw-data"), "hash", JStr(hash))
    IN factomd_call(api, req, env)

pending_entries(api, env) ==
    LET req == ApiRequest_new("pending-entries")
    IN factomd_call(api, req, env)

reveal_entry(api, entry_, env) ==
    LET req == params_insert(ApiRequest_new("reveal-entry"), "entry", JStr(entry_))
    IN factomd_call(api, req, env)

(***************************************************************************)
(* src/identity.rs                                                         *)
(***************************************************************************)
all_id_keys(api, env) ==
    LET req == ApiRequest_new("all-identity-keys")
    IN walletd_call_req(api, req, env)

active_id_keys(api, chain_id, height, env) ==
    LET req0 == ApiRequest_new("active-identity-keys")
        req1 == params_insert(req0, "chainid", JStr(chain_id))
        req2 == params_insert(req1, "height", JNum(height))
    IN walletd_call_req(api, req2, env)

remove_id_key(api, public, env) ==
    LET req == params_insert(ApiRequest_new("remove-identity-key"), "public", JStr(public))
    IN walletd_call_req(api, req, env)

id_key(api, public, env) ==
    LET req == params_insert(ApiRequest_new("identity-key"), "public", JStr(public))
    IN walletd_call_req(api, req, env)

(***************************************************************************)
(* src/tx.rs                                                               *)
(***************************************************************************)
\* A variant that sends an empty placeholder for an absent full_transaction.
ack_placeholder(self, hash, chainid, full_transaction, env) ==
    LET req0 == ApiRequest_new("ack")
        req1 == params_insert(req0, "hash", JStr(hash))
        req2 == params_insert(req1, "chainid", JStr(chainid))
        req3 == params_insert(req2, "fulltransaction", JStr(full_transaction.v))
    IN factomd_call(self, req3, env)

ack(self, hash, chainid, full_transaction, env) ==
    LET req0 == ApiRequest_new("ack")
        req1 == params_insert(req0, "hash", JStr(hash))
        req2 == params_insert(req1, "chainid", JStr(chainid))
        req3 == IF full_transaction.some
                THEN params_insert(req2, "fulltransaction", JStr(full_transaction.v))
                ELSE req2
    IN factomd_call(self, req3, env)

factoid_submit(self, transaction_, env) ==
    LET req == params_insert(ApiRequest_new("factoid-submit"), "transaction", JStr(transaction_))
    IN factomd_call(self, req, env)

transaction(self, hash, env) ==
    LET req == params_insert(ApiRequest_new("transaction"), "hash", JStr(hash))
    IN factomd_call(self, req, env)

pending_transactions(self, address, env) ==
    LET req0 == ApiRequest_new("pending-transactions")
        req1 == IF address.some
                THEN params_insert(req0, "address", JStr(address.v))
                ELSE req0
    IN factomd_call(self, req1, env)

add_ec_output(self, txname, address, amount, env) ==
    LET req0 == ApiRequest_new("add-ec-output")
        req1 == params_insert(req0, "tx-name", JStr(txname))
        req2 == params_insert(req1, "address", JStr(address))
        req3 == params_insert(req2, "amount", JNum(amount))
    IN walletd_call_req(self, req3, env)

add_fee(self, txname, address, env) ==
    LET req0 == ApiRequest_new("add-fee")
        req1 == params_insert(req0, "tx-name", JStr(txname))
        req2 == params_insert(req1, "address", JStr(address))
    IN walletd_call_req(self, req2, env)

add_input(self, txname, address, amount, env) ==
    LET req0 == ApiRequest_new("add-input")
        req1 == params_insert(req0, "tx-name", JStr(txname))
        req2 == params_insert(req1, "address", JStr(address))
        req3 == params_insert(req2, "amount", JNum(amount))
    IN walletd_call_req(self, req3, env)

add_output(self, txname, address, amount, env) ==
    LET req0 == ApiRequest_new("add-output")
        req1 == params_insert(req0, "tx-name", JStr(txname))
        req2 == params_insert(req1, "address", JStr(address))
        req3 == params_insert(req2, "amount", JNum(amount))
    IN walletd_call_req(self, req3, env)

delete_transaction(self, tx_name, env) ==
    LET req == params_insert(ApiRequest_new("delete-transaction"), "tx-name", JStr(tx_name))
    IN walletd_call_req(self, req, env)

new_transaction(self, tx_name, env) ==
    LET req == params_insert(ApiRequest_new("new-transaction"), "tx-name", JStr(tx_name))
    IN walletd_call_req(self, req, env)

sign_transaction(self, tx_name, env) ==
    LET req == params_insert(ApiRequest_new("sign-transaction"), "tx-name", JStr(tx_name))
    IN walletd_call_req(self, req, env)

sub_fee(self, tx_name, address, env) ==
    LET req0 == ApiRequest_new("sub-fee")
        req1 == params_insert(req0, "tx-name", JStr(tx_name))
        req2 == params_insert(req1, "address", JStr(address))
    IN walletd_call_req(self, req2, env)

tmp_transactions(self, env) ==
    LET req == ApiRequest_new("tmp-transactions")
    IN walletd_call_req(self, req, env)

\* A variant that writes the bounds of a range as two top-level keys.
transactions_flat_range(self, filter, env) ==
    LET req0 == ApiRequest_new("transactions")
        req1 == CASE filter.variant = "Txid" -> params_insert(req0, "txid", JStr(filter.s))
                  [] filter.variant = "Address" -> params_insert(req0, "address", JStr(filter.s))
                  [] filter.variant = "Range" ->
                         params_insert(params_insert(req0, "start", JNum(filter.start)),
                                       "end", JNum(filter.end))
    IN walletd_call_req(self, req1, env)

transactions(self, filter, env) ==
    LET req0 == ApiRequest_new("transactions")
        range == insert(insert(EmptyMap, "start", JNum(filter.start)), "end", JNum(filter.end))
        req1 == CASE filter.variant = "Txid" -> params_insert(req0, "txid", JStr(filter.s))
                  [] filter.variant = "Address" -> params_insert(req0, "address", JStr(filter.s))
                  [] filter.variant = "Range" -> params_insert(req0, "range", JObj(range))
    IN walletd_call_req(self, req1, env)

(***************************************************************************)
(* src/wallet_utils.rs                                                     *)
(***************************************************************************)
wallet_height(self, env) ==
    LET req == ApiRequest_new("get-height")
    IN walletd_call_req(self, req, env)

wallet_properties(self, env) ==
    LET req == ApiRequest_new("properties")
    IN walletd_call_req(self, req, env)

\* As written the function does not compile: line 73 names a type Hashmap
\* that does not exist and lines 74-75 insert into req.params before line 76
\* declares req.  What a build of it sends depends on the line that is
\* changed to make it compile: with req declared before the inserts
\* ("req_first") signer and data reach the request; with the inserts made
\* into the local map params ("into_params"), which is handed to nothing,
\* the request is the fresh one of ApiRequest::new.
Builds == {"req_first", "into_params"}

sign_data(self, signer, data, build, env) ==
    LET fresh == ApiRequest_new("sign-data")
        req == IF build = "req_first"
               THEN params_insert(params_insert(fresh, "signer", JStr(signer)), "data", JStr(data))
               ELSE fresh
    IN walletd_call_req(self, req, env)

(***************************************************************************)
(* Response bodies.  A body is either no JSON object and no JSON array     *)
(* (wf = FALSE: not JSON at all, or a JSON scalar), or a JSON object of    *)
(* which the model keeps the four envelope members, or a JSON array        *)
(* (array = TRUE) whose elements are the four in the order of the struct's *)
(* fields, an element that is absent being one the array is too short for: *)
(*   jsonrpc  absent, a string or a number;                                *)
(*   id       absent, a number or a string;                                *)
(*   result   absent, null, a value of the shape the method's result type  *)
(*            expects ("match") or a value of another shape ("mismatch");  *)
(*   error    absent, an object with or without its code and message       *)
(*            members, an array of a number and a string ("seq"), or any   *)
(*            other value ("nonobj": a scalar, null, an array of another   *)
(*            shape);                                                      *)
(*   first    which of result and error comes first in the text.           *)
(***************************************************************************)
ErrAbsent == [kind |-> "absent", code |-> 0, message |-> ""]
ErrNonObject == [kind |-> "nonobj", code |-> 0, message |-> ""]
ErrSeq(code, message) == [kind |-> "seq", code |-> code, message |-> message]
ErrObject(code, message) == [kind |-> "obj", code |-> code, message |-> message]
ErrNoCode(message) == [kind |-> "nocode", code |-> 0, message |-> message]
ErrNoMessage(code) == [kind |-> "nomsg", code |-> code, message |-> ""]

\* The jsonrpc member: absent, a string, or a number.
JsonrpcAbsent == [kind |-> "absent", s |-> ""]
JsonrpcString(s) == [kind |-> "str", s |-> s]
JsonrpcNumber == [kind |-> "num", s |-> ""]

\* The id member: absent, a number (IdTooBig: one above u32::MAX), or a string.
IdAbsent == [kind |-> "absent", n |-> 0]
IdNumber(n) == [kind |-> "num", n |-> n]
IdTooBig == [kind |-> "big", n |-> 0]
IdString == [kind |-> "str", n |-> 0]

Body(jsonrpc, id, result, error, first) ==
    [wf |-> TRUE, array |-> FALSE, jsonrpc |-> jsonrpc, id |-> id, result |-> result,
     error |-> error, first |-> first]

\* The JSON array [jsonrpc, id, result, error], cut before its first absent element.
ArrayBody(jsonrpc, id, result, error) ==
    [wf |-> TRUE, array |-> TRUE, jsonrpc |-> jsonrpc, id |-> id, result |-> result,
     error |-> error, first |-> "result"]

Malformed == [wf |-> FALSE, array |-> FALSE, jsonrpc |-> JsonrpcAbsent, id |-> IdAbsent,
              result |-> "absent", error |-> ErrAbsent, first |-> "result"]

(***************************************************************************)
(* serde_json::from_slice into Response, src/lib.rs:19-31 and 150: a JSON  *)
(* object (a struct with a flattened field is read from a map only) with   *)
(* jsonrpc a string, id a u32, and the flattened Outcome taken from the    *)
(* first member named result or error; Outcome::error holds a map, so the  *)
(* error member has to be an object.                                       *)
(***************************************************************************)
NoOutcome == [variant |-> "none", value |-> "absent", map |-> ErrAbsent]

NoResponse == [jsonrpc |-> "", id |-> 0, result |-> NoOutcome]

EnvelopeFieldsOk(body) ==
    /\ body.wf
    /\ body.jsonrpc.kind = "str"
    /\ body.id.kind = "num"
    /\ body.id.n >= 0

\* The member the flattened enum is read from: the first one present.
OutcomeMember(body) ==
    CASE body.result = "absent" /\ body.error.kind = "absent" -> "none"
      [] body.result # "absent" /\ body.error.kind = "absent" -> "result"
      [] body.result = "absent" /\ body.error.kind # "absent" -> "error"
      [] OTHER -> body.first

Outcome(body) ==
    CASE OutcomeMember(body) = "result" -> [variant |-> "result", value |-> body.result, map |-> ErrAbsent]
      [] OutcomeMember(body) = "error" /\ body.error.kind \in {"obj", "nocode", "nomsg"} ->
             [variant |-> "error", value |-> "absent", map |-> body.error]
      [] OTHER -> NoOutcome

Err(tag) == [tag |-> tag, resp |-> NoResponse]

\* A variant that takes the envelope members and does not ask for an outcome.
from_slice_Response_any_outcome(body) ==
    IF ~body.array /\ EnvelopeFieldsOk(body)
    THEN [tag |-> "Ok",
          resp |-> [jsonrpc |-> body.jsonrpc.s, id |-> body.id.n, result |-> Outcome(body)]]
    ELSE Err("Json")

\* A variant that reads the struct from a JSON array as well.
from_slice_Response_reads_array(body) ==
    IF EnvelopeFieldsOk(body) /\ Outcome(body).variant # "none"
    THEN [tag |-> "Ok",
          resp |-> [jsonrpc |-> body.jsonrpc.s, id |-> body.id.n, result |-> Outcome(body)]]
    ELSE Err("Json")

from_slice_Response(body) ==
    IF ~body.array /\ EnvelopeFieldsOk(body) /\ Outcome(body).variant # "none"
    THEN [tag |-> "Ok",
          resp |-> [jsonrpc |-> body.jsonrpc.s, id |-> body.id.n, result |-> Outcome(body)]]
    ELSE Err("Json")

\* Response::success, src/lib.rs:33-40
Response_success(self) ==
    CASE self.result.variant = "error" -> FALSE
      [] self.result.variant = "result" -> TRUE

(***************************************************************************)
(* ApiResponse<T>, src/responses.rs:8-26: jsonrpc a string, id a u32,      *)
(* result of type T or T::default(), error an ApiError {code: i16,         *)
(* message: String} or its default.                                        *)
(***************************************************************************)
ApiError_default == [code |-> 0, message |-> ""]

NoApiResponse == [jsonrpc |-> "", id |-> 0, result |-> "default", error |-> ApiError_default]

TypedErr(tag) == [tag |-> tag, resp |-> NoApiResponse]

\* ApiResponse::is_err and ApiResponse::success, src/responses.rs:56-72
is_err(self) == self.error.code # 0

success(self) == self.error.code = 0

\* parse(response): the second phase of the decode.  response is what
\* Factom::call resolved to: an error, which is handed on, or the generic
\* envelope, whose result is decoded into the result type T of the dispatch
\* function, or whose error map is decoded into ApiError, the other field of
\* the ApiResponse<T> taking its default.
parse(response) ==
    IF response.tag # "Ok" THEN TypedErr(response.tag)
    ELSE IF response.resp.result.variant = "result"
    THEN IF response.resp.result.value = "match"
         THEN [tag |-> "Ok",
               resp |-> [jsonrpc |-> response.resp.jsonrpc, id |-> response.resp.id,
                         result |-> "decoded", error |-> ApiError_default]]
         ELSE TypedErr("Json")
    ELSE IF /\ response.resp.result.map.kind = "obj"
            /\ response.resp.result.map.code >= I16_MIN
            /\ response.resp.result.map.code <= I16_MAX
    THEN [tag |-> "Ok",
          resp |-> [jsonrpc |-> response.resp.jsonrpc, id |-> response.resp.id,
                    result |-> "default",
                    error |-> [code |-> response.resp.result.map.code,
                               message |-> response.resp.result.map.message]]]
    ELSE TypedErr("Json")

(***************************************************************************)
(* The rest of inner_api_call, src/lib.rs:145-153: the chain               *)
(* request.and_then(concat2).from_err().and_then(decode), applied to the   *)
(* outcome of the HTTP exchange (a body that was read, or a hyper error).  *)
(***************************************************************************)
Received(body) == [ok |-> TRUE, body |-> body]
HyperError == [ok |-> FALSE, body |-> Malformed]

\* A variant that runs the decoder on a failed exchange too.
response_future_decodes_error(exchange) ==
    [out |-> from_slice_Response(exchange.body), decodes |-> 1]

response_future(exchange) ==
    IF exchange.ok
    THEN [out |-> from_slice_Response(exchange.body), decodes |-> 1]
    ELSE [out |-> Err("Http"), decodes |-> 0]

\* The tail of a dispatch function: let response = call(req).await;
\* parse(response).await.
typed_result(exchange) == parse(response_future(exchange).out)

(***************************************************************************)
(* Inputs: the handles a program can construct, the invocations of the     *)
(* dispatch functions, the replies a remote can give.                      *)
(***************************************************************************)
Localhost == <<"l","o","c","a","l","h","o","s","t">>

\* Two hostnames, a text with a character no URI may hold, a text with a
\* slash and the two bytes of a character beyond ASCII, a text with a slash
\* and a control byte, a text with a slash and a brace, a text with a
\* percent sign, brackets in the wrong order around an at sign, and a
\* bracketed text with nine colons.
Hosts == {Localhost, <<"n",".","i","o">>, <<"a"," ","b">>, <<"a","/","C3","A9">>, <<"a","/","0A">>,
          <<"a","/","{">>, <<"a","%","b">>, <<"]","@","[">>,
          <<"[","1",":","2",":","3",":","4",":","5",":","6",":","7",":","8",":","9",":","a","]">>}

Handles == {Factom_new, Factom_default}
               \cup {from_host(h) : h \in Hosts}
               \cup {from_https_host(h) : h \in {<<"n",".","i","o">>, <<"a"," ","b">>}}

Strs == {"", "a"}

\* A string with bytes the writer escapes (a quote, a backslash, a newline,
\* a backspace) and the two bytes of a character beyond ASCII.
Quoted == "a\"\\\n~08~C3~A9"
Amounts == 0..MaxAmount
Heights == 0..MaxHeight
Blocks == 1..MaxRange
Options == {None} \cup {Some(x) : x \in Strs}
Filters == {Txid(t) : t \in Strs} \cup {Address(a) : a \in Strs}
               \cup {Range(b, e) : b \in Blocks, e \in Blocks}

\* build matters to sign_data only.
Inv(fn, s1, s2, opt, n, filter) ==
    [fn |-> fn, s1 |-> s1, s2 |-> s2, opt |-> opt, n |-> n, filter |-> filter,
     build |-> "req_first"]

NoInv == Inv("", "", "", None, 0, Txid(""))

Inv0(fn) == Inv(fn, "", "", None, 0, Txid(""))
Inv1(fn, s1) == Inv(fn, s1, "", None, 0, Txid(""))
Inv2(fn, s1, s2) == Inv(fn, s1, s2, None, 0, Txid(""))

Invocations ==
    {Inv0(fn) : fn \in {"pending_entries", "all_id_keys", "tmp_transactions",
                        "wallet_height", "wallet_properties"}}
    \cup {Inv1(fn, x) : fn \in {"commit_entry", "entry", "raw_data", "reveal_entry",
                                "remove_id_key", "id_key", "factoid_submit", "transaction",
                                "delete_transaction", "new_transaction", "sign_transaction"},
                        x \in Strs}
    \cup {Inv2(fn, x, y) : fn \in {"add_fee", "sub_fee"}, x \in Strs, y \in Strs}
    \cup {[Inv2("sign_data", x, y) EXCEPT !.build = b] : x \in Strs, y \in Strs, b \in Builds}
    \cup {Inv("active_id_keys", x, "", None, h, Txid("")) : x \in Strs, h \in Heights}
    \cup {Inv("ack", x, y, o, 0, Txid("")) : x \in Strs, y \in Strs, o \in Options}
    \cup {Inv("pending_transactions", "", "", o, 0, Txid("")) : o \in Options}
    \cup {Inv(fn, x, y, None, a, Txid("")) : fn \in {"add_ec_output", "add_input", "add_output"},
                                             x \in Strs, y \in Strs, a \in Amounts}
    \cup {Inv("transactions", "", "", None, 0, f) : f \in Filters}
    \cup {Inv1("commit_entry", Quoted), Inv2("add_fee", Quoted, "a")}

Invoke(api, inv, env) ==
    CASE inv.fn = "commit_entry" -> commit_entry(api, inv.s1, env)
      [] inv.fn = "entry" -> entry(api, inv.s1, env)
      [] inv.fn = "raw_data" -> raw_data(api, inv.s1, env)
      [] inv.fn = "pending_entries" -> pending_entries(api, env)
      [] inv.fn = "reveal_entry" -> reveal_entry(api, inv.s1, env)
      [] inv.fn = "all_id_keys" -> all_id_keys(api, env)
      [] inv.fn = "active_id_keys" -> active_id_keys(api, inv.s1, inv.n, env)
      [] inv.fn = "remove_id_key" -> remove_id_key(api, inv.s1, env)
      [] inv.fn = "id_key" -> id_key(api, inv.s1, env)
      [] inv.fn = "ack" -> ack(api, inv.s1, inv.s2, inv.opt, env)
      [] inv.fn = "factoid_submit" -> factoid_submit(api, inv.s1, env)
      [] inv.fn = "transaction" -> transaction(api, inv.s1, env)
      [] inv.fn = "pending_transactions" -> pending_transactions(api, inv.opt, env)
      [] inv.fn = "add_ec_output" -> add_ec_output(api, inv.s1, inv.s2, inv.n, env)
      [] inv.fn = "add_fee" -> add_fee(api, inv.s1, inv.s2, env)
      [] inv.fn = "add_input" -> add_input(api, inv.s1, inv.s2, inv.n, env)
      [] inv.fn = "add_output" -> add_output(api, inv.s1, inv.s2, inv.n, env)
      [] inv.fn = "delete_transaction" -> delete_transaction(api, inv.s1, env)
      [] inv.fn = "new_transaction" -> new_transaction(api, inv.s1, env)
      [] inv.fn = "sign_transaction" -> sign_transaction(api, inv.s1, env)
      [] inv.fn = "sub_fee" -> sub_fee(api, inv.s1, inv.s2, env)
      [] inv.fn = "tmp_transactions" -> tmp_transactions(api, env)
      [] inv.fn = "transactions" -> transactions(api, inv.filter, env)
      [] inv.fn = "wallet_height" -> wallet_height(api, env)
      [] inv.fn = "wallet_properties" -> wallet_properties(api, env)
      [] inv.fn = "sign_data" -> sign_data(api, inv.s1, inv.s2, inv.build, env)

\* Error codes around 0 and around both ends of the i16 range.
Codes == {I16_MIN - 1, I16_MIN, -1, 0, 1, I16_MAX, I16_MAX + 1}
Messages == {"repeated commit"}

Errors == {ErrAbsent, ErrNonObject, ErrSeq(-1, "repeated commit"), ErrSeq(0, "")}
              \cup {ErrObject(c, m) : c \in Codes, m \in Messages}
              \cup {ErrNoCode(m) : m \in Messages}
              \cup {ErrNoMessage(-1)}

Results == {"absent", "match", "mismatch", "null"}

\* Bodies with the envelope members as the remote daemons write them and
\* every combination of result and error.
EnvelopeBodies ==
    {Body(JsonrpcString("2.0"), IdNumber(0), r, e, f) :
        r \in Results, e \in Errors,
        f \in {"result", "error"}} \ {b \in {Body(JsonrpcString("2.0"), IdNumber(0), r, e, "error") :
                                               r \in Results, e \in Errors} :
                                         b.result = "absent" \/ b.error.kind = "absent"}

\* Bodies with one envelope member missing or of the wrong type.
OddJsonrpc == {JsonrpcAbsent, JsonrpcNumber, JsonrpcString("1.0")}
OddId == {IdAbsent, IdString, IdNumber(7), IdNumber(-1), IdTooBig}
Payloads == { <<"match", ErrAbsent>>, <<"absent", ErrObject(-1, "repeated commit")>> }

OddBodies ==
    {Body(j, IdNumber(0), p[1], p[2], "result") : j \in OddJsonrpc, p \in Payloads}
        \cup {Body(JsonrpcString("2.0"), i, p[1], p[2], "result") : i \in OddId, p \in Payloads}

\* Bodies that are a JSON array: [], ["2.0"], ["2.0",0], and the latter
\* followed by a result, and by a result and an error.
ArrayBodies ==
    {ArrayBody(JsonrpcAbsent, IdAbsent, "absent", ErrAbsent),
     ArrayBody(JsonrpcString("2.0"), IdAbsent, "absent", ErrAbsent),
     ArrayBody(JsonrpcString("2.0"), IdNumber(0), "absent", ErrAbsent),
     ArrayBody(JsonrpcString("2.0"), IdNumber(0), "match", ErrAbsent),
     ArrayBody(JsonrpcString("2.0"), IdNumber(0), "match", ErrObject(-1, "repeated commit"))}

Bodies == EnvelopeBodies \cup OddBodies \cup ArrayBodies \cup {Malformed}

Statuses == {200, 500}

(***************************************************************************)
(* The state: the handle the program constructed, for every caller the     *)
(* call it has in flight, and the connections.  A call is idle, called     *)
(* (the dispatch function, an async fn, returned its future, which has not *)
(* been polled: nothing of its body has run), sent (fetch polled the       *)
(* future: the body ran, the request is built and handed to                *)
(* client.request; no connection is open), connected (the client opened a  *)
(* connection, nothing is written to it), written (the request is on the   *)
(* connection), reading (the response head arrived, the body is being      *)
(* read), done (the future resolved) or panicked (the call unwound; it     *)
(* returns nothing).  Every call builds a Client of its own (lib.rs:144),  *)
(* which opens a connection for the request in a later poll and is dropped *)
(* with the future: a connection holds the bytes of the request that was   *)
(* written to it and, once the remote has answered, the body of the reply. *)
(***************************************************************************)
CallIds == 1..MaxCalls

ConnIds == 1..MaxCalls

\* The callers of the sequential specification.
Sequential == {1}

IdleCall == [pc |-> "idle", inv |-> NoInv, request |-> NoRequest, panic |-> "", posts |-> 0,
             conn |-> 0, status |-> 0, body |-> Malformed, got_body |-> FALSE, decodes |-> 0,
             out |-> Err("none"), typed |-> TypedErr("none")]

Closed == [open |-> FALSE, wire |-> <<>>, replied |-> FALSE, reply |-> Malformed]

Init == /\ handle \in Handles
        /\ calls = [c \in CallIds |-> IdleCall]
        /\ net = [k \in ConnIds |-> Closed]

\* Caller c, having no call in flight, calls one of the dispatch functions:
\* the future is returned and nothing of the function's body has run.
DispatchCall(c, inv) ==
    /\ calls[c].pc = "idle"
    /\ calls' = [calls EXCEPT ![c] = [IdleCall EXCEPT !.pc = "called", !.inv = inv]]
    /\ UNCHANGED <<handle, net>>

\* The phases in which a call waits for the response head.
Waiting == {"sent", "connected", "written"}

\* A client opens a connection, one that no other call holds.
Connect(conns) ==
    CHOOSE r \in
        {[id |-> k, conns |-> [conns EXCEPT ![k] = [Closed EXCEPT !.open = TRUE]]] :
         k \in {CHOOSE k \in ConnIds : ~conns[k].open /\ \A j \in 1..(k - 1) : conns[j].open}} : TRUE

\* The connection is dropped, if there is one.
Close(conns, k) == IF k \in ConnIds THEN [conns EXCEPT ![k] = Closed] ELSE conns

\* A variant that accepts reveal_entry only after a commit_entry call is done.
Dispatch_requires_commit(c, env) ==
    /\ calls[c].pc = "called"
    /\ calls[c].inv.fn = "reveal_entry" =>
           \E d \in CallIds : calls[d].inv.fn = "commit_entry" /\ calls[d].pc = "done"
    /\ \E request \in {Invoke(handle, calls[c].inv, env)} :
           calls' = [calls EXCEPT ![c] =
                        IF request.panicked
                        THEN [@ EXCEPT !.pc = "panicked", !.request = request,
                                       !.panic = request.panic]
                        ELSE IF request.target.host_panics
                        THEN [@ EXCEPT !.pc = "panicked", !.request = request, !.posts = 1,
                                       !.panic = "parsing should validate brackets"]
                        ELSE [@ EXCEPT !.pc = "sent", !.request = request, !.posts = 1]]
    /\ UNCHANGED <<handle, net>>

\* The future of a dispatch function is polled for the first time: the body
\* of the function runs, the request is built and, unless building it
\* panics, handed to client.request (lib.rs:145), whose connector asks the
\* URI for its host.  The poll returns with no connection open and nothing
\* written: the transport does that in later polls.
Dispatch(c, env) ==
    /\ calls[c].pc = "called"
    /\ \E request \in {Invoke(handle, calls[c].inv, env)} :
           calls' = [calls EXCEPT ![c] =
                        IF request.panicked
                        THEN [@ EXCEPT !.pc = "panicked", !.request = request,
                                       !.panic = request.panic]
                        ELSE IF request.target.host_panics
                        THEN [@ EXCEPT !.pc = "panicked", !.request = request, !.posts = 1,
                                       !.panic = "parsing should validate brackets"]
                        ELSE [@ EXCEPT !.pc = "sent", !.request = request, !.posts = 1]]
    /\ UNCHANGED <<handle, net>>

\* fetch, src/lib.rs:157-164: the runtime is created and block_on polls the
\* future; when the runtime cannot be created (runtime = FALSE) fetch
\* panics before the future is polled.
Fetch(c, runtime, env) ==
    /\ calls[c].pc = "called"
    /\ IF runtime
       THEN Dispatch(c, env)
       ELSE /\ calls' = [calls EXCEPT ![c] =
                             [@ EXCEPT !.pc = "panicked",
                                       !.panic = "Unable to create a tokio runtime"]]
            /\ UNCHANGED <<handle, net>>

\* A variant that turns a reply with a status other than 200 into an error.
Resolve_checks_status(inflight, exchange) ==
    [inflight EXCEPT !.pc = "done",
                 !.body = exchange.body,
                 !.got_body = exchange.ok,
                 !.decodes = response_future(exchange).decodes,
                 !.out = IF exchange.ok /\ inflight.status # 200 THEN Err("Http")
                         ELSE response_future(exchange).out,
                 !.typed = IF exchange.ok /\ inflight.status # 200 THEN TypedErr("Http")
                           ELSE typed_result(exchange)]

\* The future resolves with the outcome of the exchange.
Resolve(inflight, exchange) ==
    [inflight EXCEPT !.pc = "done",
                 !.body = exchange.body,
                 !.got_body = exchange.ok,
                 !.decodes = response_future(exchange).decodes,
                 !.out = response_future(exchange).out,
                 !.typed = typed_result(exchange)]

\* A later poll: the client has resolved the host and opens its connection.
OpenConnection(c) ==
    /\ calls[c].pc = "sent"
    /\ \E connected \in {Connect(net)} :
           /\ calls' = [calls EXCEPT ![c] = [@ EXCEPT !.pc = "connected", !.conn = connected.id]]
           /\ net' = connected.conns
    /\ UNCHANGED handle

\* A later poll: the request is written to the connection.
WriteRequest(c) ==
    /\ calls[c].pc = "connected"
    /\ calls' = [calls EXCEPT ![c] = [@ EXCEPT !.pc = "written"]]
    /\ net' = [net EXCEPT ![calls[c].conn] = [@ EXCEPT !.wire = calls[c].request.wire]]
    /\ UNCHANGED handle

\* A variant that sends the request once more after a failed connect.
ConnectFail_retries(c) ==
    /\ calls[c].pc \in Waiting
    /\ calls' = [calls EXCEPT ![c] =
                    IF calls[c].posts < 2
                    THEN [calls[c] EXCEPT !.posts = calls[c].posts + 1]
                    ELSE Resolve(calls[c], HyperError)]
    /\ net' = IF calls[c].posts < 2 THEN net ELSE Close(net, calls[c].conn)
    /\ UNCHANGED handle

\* client.request(req) fails before a response arrives: at DNS or connect
\* with no connection open, at the write or while it waits for the head.
ConnectFail(c) ==
    /\ calls[c].pc \in Waiting
    /\ calls' = [calls EXCEPT ![c] = Resolve(calls[c], HyperError)]
    /\ net' = Close(net, calls[c].conn)
    /\ UNCHANGED handle

\* A variant that falls back to the default handle on a status other than 200.
ResponseHead_falls_back(c, status) ==
    /\ calls[c].pc = "written"
    /\ calls' = [calls EXCEPT ![c] = [calls[c] EXCEPT !.pc = "reading", !.status = status]]
    /\ handle' = IF status = 200 THEN handle ELSE Factom_new
    /\ UNCHANGED net

\* The response head arrives with some status; the body is read next.
ResponseHead(c, status) ==
    /\ calls[c].pc = "written"
    /\ calls' = [calls EXCEPT ![c] = [calls[c] EXCEPT !.pc = "reading", !.status = status]]
    /\ UNCHANGED <<handle, net>>

\* A variant that swallows the read error and leaves the call waiting.
ReadFail_keeps_waiting(c) ==
    /\ calls[c].pc = "reading"
    /\ calls' = [calls EXCEPT ![c] = [calls[c] EXCEPT !.pc = "waiting"]]
    /\ UNCHANGED <<handle, net>>

\* res.into_body().concat2() fails while the body streams in.
ReadFail(c) ==
    /\ calls[c].pc = "reading"
    /\ calls' = [calls EXCEPT ![c] = Resolve(calls[c], HyperError)]
    /\ net' = Close(net, calls[c].conn)
    /\ UNCHANGED handle

\* A variant with one response buffer for all calls: the body read for call c
\* resolves every call that is reading.
ReadBody_shared_buffer(c, body) ==
    /\ calls[c].pc = "reading"
    /\ calls' = [d \in CallIds |->
                    IF calls[d].pc = "reading" THEN Resolve(calls[d], Received(body))
                    ELSE calls[d]]
    /\ net' = [k \in ConnIds |->
                  IF \E d \in CallIds : calls[d].pc = "reading" /\ calls[d].conn = k
                  THEN Closed ELSE net[k]]
    /\ UNCHANGED handle

\* The whole body is read from the call's connection and handed to the
\* decoder; the client and its connection are dropped.
ReadBody(c, body) ==
    /\ calls[c].pc = "reading"
    /\ calls' = [calls EXCEPT ![c] = Resolve(calls[c], Received(body))]
    /\ net' = Close(net, calls[c].conn)
    /\ UNCHANGED handle

\* block_on returns the outcome to the caller of fetch; it may call again.
Return(c) ==
    /\ calls[c].pc = "done"
    /\ calls' = [calls EXCEPT ![c] = IdleCall]
    /\ UNCHANGED <<handle, net>>

\* One caller, and a remote of which nothing is known: any body may arrive.
Next == \E c \in Sequential :
            \/ \E inv \in Invocations : DispatchCall(c, inv)
            \/ \E runtime \in BOOLEAN, env \in Envs : Fetch(c, runtime, env)
            \/ OpenConnection(c)
            \/ WriteRequest(c)
            \/ ConnectFail(c)
            \/ \E status \in Statuses : ResponseHead(c, status)
            \/ ReadFail(c)
            \/ \E body \in Bodies : ReadBody(c, body)
            \/ Return(c)

Spec == Init /\ [][Next]_vars

(***************************************************************************)
(* Several callers on one handle, and the remote daemon.  Every caller     *)
(* issues one call; the calls are issued and their exchanges proceed in    *)
(* any interleaving, one after the other included.  The remote reads the   *)
(* request that was written to a connection and answers it on that         *)
(* connection: with a result, with an error whose message names the method *)
(* it read, or with bytes that are not JSON.  A call reads the reply that  *)
(* is on its own connection.                                               *)
(***************************************************************************)
ConcurrentHandles == {from_https_host(<<"n",".","i","o">>)}

ConcurrentInvocations == {Inv1("commit_entry", "a"), Inv1("reveal_entry", "a")}

\* The calls carry at most one parameter, so the iteration order of the
\* params does not matter; the handle's URIs parse alike with every http
\* version, so what is left of the environment is whether the TLS
\* connector can be set up.
ConcurrentEnvs == {env \in Envs : env.rot = 0 /\ ~env.rev}

RemoteReplies(method) ==
    {Body(JsonrpcString("2.0"), IdNumber(0), "match", ErrAbsent, "result"),
     Body(JsonrpcString("2.0"), IdNumber(0), "absent", ErrObject(-1, method), "result"),
     Malformed}

\* Every reply the remote can give to one of the requests.
ConcurrentBodies ==
    UNION {RemoteReplies(m) : m \in {"commit-entry", "reveal-entry"}}

\* The remote decodes the request on connection k and writes its reply.
Remote(k, body) ==
    /\ net[k].open
    /\ ~net[k].replied
    /\ \E received \in {from_json(net[k].wire)} :
           /\ received.ok
           /\ body \in RemoteReplies(received.req.method)
    /\ net' = [net EXCEPT ![k] = [@ EXCEPT !.replied = TRUE, !.reply = body]]
    /\ UNCHANGED <<handle, calls>>

\* A variant that reads the reply that is on any connection.
ReadReply_any_connection(c) ==
    \E k \in ConnIds : net[k].replied /\ ReadBody(c, net[k].reply)

\* The reply on the connection of call c is read.
ReadReply(c) ==
    /\ calls[c].pc = "reading"
    /\ net[calls[c].conn].replied
    /\ ReadBody(c, net[calls[c].conn].reply)

InitConcurrent == /\ handle \in ConcurrentHandles
                  /\ calls = [c \in CallIds |-> IdleCall]
                  /\ net = [k \in ConnIds |-> Closed]

NextConcurrent ==
    \/ \E c \in CallIds :
           \/ \E inv \in ConcurrentInvocations : DispatchCall(c, inv)
           \/ \E runtime \in BOOLEAN, env \in ConcurrentEnvs : Fetch(c, runtime, env)
           \/ OpenConnection(c)
           \/ WriteRequest(c)
           \/ ConnectFail(c)
           \/ \E status \in Statuses : ResponseHead(c, status)
           \/ ReadFail(c)
           \/ ReadReply(c)
    \/ \E k \in ConnIds, body \in ConcurrentBodies : Remote(k, body)

SpecConcurrent == InitConcurrent /\ [][NextConcurrent]_vars

\* The exchange of call c: every step the transport takes for it.
Exchange(c) ==
    \/ OpenConnection(c)
    \/ WriteRequest(c)
    \/ ConnectFail(c)
    \/ \E status \in Statuses : ResponseHead(c, status)
    \/ ReadFail(c)
    \/ ReadReply(c)

\* fetch (lib.rs:157-165) blocks on the future until it resolves, and the
\* future is ready as soon as the transport has answered or failed: under
\* the assumption that the transport does one or the other, the exchange of
\* every call keeps taking its steps.
FairSpec == SpecConcurrent /\ \A c \in CallIds : WF_vars(Exchange(c))

(***************************************************************************)
(* What the properties speak of.                                           *)
(***************************************************************************)
\* The POST of call c has been issued.
Posted(c) == calls[c].pc \in Waiting \cup {"reading", "done"}

\* The value of member k of the object a text holds.
MemberText(t, k) ==
    CHOOSE m \in {read.v.members[LastIndex(read.v, k)][2] : read \in {Read(t)}} : TRUE

\* The request body of call c as the remote reads it.
SentEnvelope(c) == MapOfText(Read(calls[c].request.wire).v)

SentParams(c) == MapOfText(MemberText(calls[c].request.wire, "params"))

\* The wire names of the methods, by daemon (section 6 of the specification).
NodeMethods == {"commit-entry", "entry", "raw-data", "pending-entries", "reveal-entry",
                "ack", "factoid-submit", "transaction", "pending-transactions"}

WalletMethods == {"all-identity-keys", "active-identity-keys", "remove-identity-key",
                  "identity-key", "new-transaction", "add-input", "add-output",
                  "add-ec-output", "add-fee", "sub-fee", "sign-transaction",
                  "delete-transaction", "tmp-transactions", "transactions",
                  "get-height", "properties", "sign-data"}

\* The wire name each dispatch function is documented to call.
WireName(fn) ==
    CASE fn = "commit_entry" -> "commit-entry"
      [] fn = "entry" -> "entry"
      [] fn = "raw_data" -> "raw-data"
      [] fn = "pending_entries" -> "pending-entries"
      [] fn = "reveal_entry" -> "reveal-entry"
      [] fn = "all_id_keys" -> "all-identity-keys"
      [] fn = "active_id_keys" -> "active-identity-keys"
      [] fn = "remove_id_key" -> "remove-identity-key"
      [] fn = "id_key" -> "identity-key"
      [] fn = "ack" -> "ack"
      [] fn = "factoid_submit" -> "factoid-submit"
      [] fn = "transaction" -> "transaction"
      [] fn = "pending_transactions" -> "pending-transactions"
      [] fn = "add_ec_output" -> "add-ec-output"
      [] fn = "add_fee" -> "add-fee"
      [] fn = "add_input" -> "add-input"
      [] fn = "add_output" -> "add-output"
      [] fn = "delete_transaction" -> "delete-transaction"
      [] fn = "new_transaction" -> "new-transaction"
      [] fn = "sign_transaction" -> "sign-transaction"
      [] fn = "sub_fee" -> "sub-fee"
      [] fn = "tmp_transactions" -> "tmp-transactions"
      [] fn = "transactions" -> "transactions"
      [] fn = "wallet_height" -> "get-height"
      [] fn = "wallet_properties" -> "properties"
      [] fn = "sign_data" -> "sign-data"

\* The body is an envelope as section 6 writes it, carrying an error only.
WellFormedErrorEnvelope(body) ==
    /\ body.wf
    /\ ~body.array
    /\ body.jsonrpc = JsonrpcString("2.0")
    /\ body.id = IdNumber(0)
    /\ body.result = "absent"
    /\ body.error.kind = "obj"

(***************************************************************************)
(* C1.  success() is true exactly when the decoded response's error code   *)
(* is 0 or no error is present, and false for every nonzero code, for      *)
(* ApiResponse::success and for Response::success.                         *)
(***************************************************************************)
\* The error of a decoded Response: present with a code, or not present.
ResponseHasCode(r) == r.result.variant = "error" /\ r.result.map.kind \in {"obj", "nomsg"}

C1_SuccessIffCodeZero ==
    \A c \in CallIds :
        /\ calls[c].typed.tag = "Ok" =>
               /\ (\/ calls[c].out.resp.result.variant = "result"
                   \/ calls[c].out.resp.result.map.code = 0)
                      => success(calls[c].typed.resp)
               /\ (/\ calls[c].out.resp.result.variant = "error"
                   /\ calls[c].out.resp.result.map.code # 0)
                      => ~success(calls[c].typed.resp)
        /\ calls[c].out.tag = "Ok" =>
               /\ calls[c].out.resp.result.variant = "result"
                      => Response_success(calls[c].out.resp)
               /\ (ResponseHasCode(calls[c].out.resp) /\ calls[c].out.resp.result.map.code = 0)
                      => Response_success(calls[c].out.resp)
               /\ (ResponseHasCode(calls[c].out.resp) /\ calls[c].out.resp.result.map.code # 0)
                      => ~Response_success(calls[c].out.resp)

(***************************************************************************)
(* C2.  A well-formed error envelope decodes: the call resolves to Ok and  *)
(* the payload carries the envelope's error code and message.              *)
(***************************************************************************)
C2_ErrorEnvelopeIsData ==
    \A c \in CallIds :
        (calls[c].pc = "done" /\ calls[c].got_body /\ WellFormedErrorEnvelope(calls[c].body)) =>
            /\ calls[c].out.tag = "Ok"
            /\ calls[c].typed.tag = "Ok"
            /\ calls[c].typed.resp.error.code = calls[c].body.error.code
            /\ calls[c].typed.resp.error.message = calls[c].body.error.message

(***************************************************************************)
(* C3.  When the exchange fails before a body is received, on either       *)
(* endpoint, the call resolves to FetchError::Http and the decode step did *)
(* not run.                                                                *)
(***************************************************************************)
C3_TransportErrorSkipsDecode ==
    \A c \in CallIds :
        (calls[c].pc = "done" /\ ~calls[c].got_body) =>
            /\ calls[c].out.tag = "Http"
            /\ calls[c].decodes = 0

C3_Witness ==
    \E c \in CallIds :
        /\ calls[c].pc = "done"
        /\ ~calls[c].got_body
        /\ calls[c].status = 0
        /\ calls[c].request.dest = handle.wallet_uri
        /\ calls[c].out.tag = "Http"

(***************************************************************************)
(* C4.  An optional argument (ack's full_transaction, pending_transactions'*)
(* address) that is absent leaves no key in the encoded params, and one    *)
(* that is present is encoded under its key with the given value.          *)
(***************************************************************************)
OptionalKey(fn) == IF fn = "ack" THEN "fulltransaction" ELSE "address"

C4_OptionalArgumentOmitted ==
    \A c \in CallIds :
        (Posted(c) /\ calls[c].inv.fn \in {"ack", "pending_transactions"}) =>
            LET key == OptionalKey(calls[c].inv.fn)
                opt == calls[c].inv.opt
                sent == SentParams(c)
            IN /\ ~opt.some => key \notin DOMAIN sent
               /\ opt.some => /\ key \in DOMAIN sent
                              /\ sent[key] = JStr(opt.v)

C4_Witness ==
    \E c \in CallIds :
        /\ Posted(c)
        /\ calls[c].inv.fn = "ack"
        /\ ~calls[c].inv.opt.some
        /\ DOMAIN SentParams(c) = {"hash", "chainid"}

(***************************************************************************)
(* C5.  transactions encodes exactly one params key, the one of the chosen *)
(* SearchBy variant: txid, address, or range = {start, end}.               *)
(***************************************************************************)
C5_ExactlyOneSearchKey ==
    \A c \in CallIds :
        (Posted(c) /\ calls[c].inv.fn = "transactions") =>
            LET f == calls[c].inv.filter
                sent == SentParams(c)
            IN /\ Cardinality(DOMAIN sent) = 1
               /\ f.variant = "Txid" => sent = [k \in {"txid"} |-> JStr(f.s)]
               /\ f.variant = "Address" => sent = [k \in {"address"} |-> JStr(f.s)]
               /\ f.variant = "Range" =>
                      sent = [k \in {"range"} |->
                                          JObj([x \in {"start", "end"} |->
                                                   IF x = "start" THEN JNum(f.start) ELSE JNum(f.end)])]

C5_Witness ==
    \E c \in CallIds :
        /\ Posted(c)
        /\ calls[c].inv.fn = "transactions"
        /\ calls[c].inv.filter = Range(1, 2)
        /\ DOMAIN SentParams(c) = {"range"}
        /\ SentParams(c)["range"].obj["start"] = JNum(1)
        /\ SentParams(c)["range"].obj["end"] = JNum(2)

(***************************************************************************)
(* C6.  Every request that is sent is an envelope with jsonrpc "2.0",      *)
(* id 0, the wire name of the dispatch function as method, and as params   *)
(* exactly the mapping the dispatch function handed to the call.           *)
(***************************************************************************)
C6_RequestEnvelope ==
    \A c \in CallIds :
        Posted(c) =>
            LET sent == SentEnvelope(c)
            IN /\ DOMAIN sent = {"jsonrpc", "id", "method", "params"}
               /\ sent["jsonrpc"] = JStr("2.0")
               /\ sent["id"] = JNum(0)
               /\ sent["method"] = JStr(WireName(calls[c].inv.fn))
               /\ sent["params"] = JObj(calls[c].request.params)
               /\ calls[c].request.http_method = "POST"

C6_Witness ==
    \E c \in CallIds :
        /\ Posted(c)
        /\ calls[c].inv.fn = "add_input"
        /\ SentEnvelope(c)["method"] = JStr("add-input")
        /\ SentParams(c) = [k \in {"tx-name", "address", "amount"} |->
                               CASE k = "tx-name" -> JStr("a")
                                 [] k = "address" -> JStr("")
                                 [] k = "amount" -> JNum(1)]

(***************************************************************************)
(* C7.  Each dispatch function posts once, to the daemon of its method:    *)
(* the node-daemon methods to the handle's uri, the wallet-daemon methods  *)
(* to the handle's wallet_uri.                                             *)
(***************************************************************************)
C7_RoutedToItsDaemon ==
    \A c \in CallIds :
        Posted(c) =>
            LET m == MemberText(calls[c].request.wire, "method").str
            IN /\ m \in NodeMethods \cup WalletMethods
               /\ m \in NodeMethods => calls[c].request.dest = handle.uri
               /\ m \in WalletMethods => calls[c].request.dest = handle.wallet_uri
               /\ calls[c].posts = 1

C7_Witness ==
    \E c \in CallIds :
        /\ Posted(c)
        /\ calls[c].inv.fn = "ack"
        /\ handle.uri # handle.wallet_uri
        /\ calls[c].request.dest = handle.uri

(***************************************************************************)
(* C8.  The handle of Factom::new() has node-daemon URI                    *)
(* http://localhost:8089/v2 and wallet-daemon URI http://localhost:8088/v2;*)
(* a node-daemon call posts to the former, a wallet-daemon call to the     *)
(* latter.                                                                 *)
(***************************************************************************)
HttpUri(host, port) ==
    [ok |-> TRUE, scheme |-> <<"h","t","t","p">>, authority |-> host \o <<":">> \o port,
     host |-> host, host_panics |-> FALSE, port |-> port, path |-> <<"/","v","2">>,
     query |-> <<>>]

C8_DefaultEndpoints ==
    handle = Factom_new =>
        /\ \A http \in HttpVersions :
               /\ ParseUri(handle.uri, http) = HttpUri(Localhost, <<"8","0","8","9">>)
               /\ ParseUri(handle.wallet_uri, http) = HttpUri(Localhost, <<"8","0","8","8">>)
        /\ \A c \in CallIds :
               Posted(c) =>
                   /\ calls[c].request.method \in NodeMethods =>
                          calls[c].request.target = HttpUri(Localhost, <<"8","0","8","9">>)
                   /\ calls[c].request.method \in WalletMethods =>
                          calls[c].request.target = HttpUri(Localhost, <<"8","0","8","8">>)

C8_Witness ==
    /\ handle = Factom_new
    /\ \E c \in CallIds :
           /\ Posted(c)
           /\ calls[c].request.method = "commit-entry"
           /\ calls[c].request.target.port = <<"8","0","8","9">>

(***************************************************************************)
(* C9.  For every hostname h, the handle of from_https_host(h) sends its   *)
(* node-daemon and wallet-daemon calls to https://h:<port>/v2, and the     *)
(* handle of from_host(h) sends them to http://h:<port>/v2.                *)
(***************************************************************************)
HostnameChars == {"a","b","c","d","e","f","g","h","i","j","k","l","m","n","o","p","q","r",
                  "s","t","u","v","w","x","y","z","0","1","2","3","4","5","6","7","8","9",
                  ".","-"}

IsHostname(h) == /\ Len(h) > 0
                 /\ \A i \in 1..Len(h) : h[i] \in HostnameChars

IsPort(p) == /\ Len(p) > 0
             /\ \A i \in 1..Len(p) : \E d \in 1..10 : p[i] = Digits[d]

SentTo(c, scheme, h) ==
    /\ calls[c].request.target.ok
    /\ calls[c].request.target.scheme = scheme
    /\ calls[c].request.target.host = h
    /\ IsPort(calls[c].request.target.port)
    /\ calls[c].request.target.path = <<"/","v","2">>
    /\ calls[c].request.dest = scheme \o <<":","/","/">> \o h \o <<":">>
                                   \o calls[c].request.target.port \o <<"/","v","2">>

C9_HostOverride ==
    \A h \in Hosts :
        IsHostname(h) =>
            /\ handle = from_https_host(h) =>
                   \A c \in CallIds : Posted(c) => SentTo(c, <<"h","t","t","p","s">>, h)
            /\ handle = from_host(h) =>
                   \A c \in CallIds : Posted(c) => SentTo(c, <<"h","t","t","p">>, h)

C9_Witness ==
    /\ handle = from_https_host(<<"n",".","i","o">>)
    /\ \E c \in CallIds :
           /\ Posted(c)
           /\ calls[c].request.method \in WalletMethods
           /\ SentTo(c, <<"h","t","t","p","s">>, <<"n",".","i","o">>)

(***************************************************************************)
(* C10.  As claimed: a call on a base URI that does not parse ends with a  *)
(* transport error value returned to the caller and aborts in no other way.*)
(***************************************************************************)
\* The body of the dispatch function of call c has run.
Started(c) == calls[c].request # NoRequest

\* The request of call c was built as far as its URI, which the http crate
\* of the build did not parse.
Unparseable(c) == Started(c) /\ ~calls[c].request.target.ok

C10_UnparseableUriIsTransportError ==
    \A c \in CallIds :
        Unparseable(c) =>
            /\ calls[c].pc = "done"
            /\ calls[c].out.tag = "Http"

(***************************************************************************)
(* C11.  A body that is not a well-formed envelope (not JSON, not a JSON   *)
(* object, or an object lacking the jsonrpc or the id member) fails to     *)
(* decode: the call resolves to FetchError::Json, for the caller of        *)
(* Factom::call and for the caller of the dispatch function, and carries   *)
(* no response, partial or defaulted.                                      *)
(***************************************************************************)
NotAnEnvelope(body) ==
    \/ ~body.wf
    \/ body.array
    \/ body.jsonrpc.kind = "absent"
    \/ body.id.kind = "absent"

C11_NotAnEnvelopeIsJsonError ==
    \A c \in CallIds :
        (calls[c].pc = "done" /\ calls[c].got_body /\ NotAnEnvelope(calls[c].body)) =>
            /\ calls[c].out = Err("Json")
            /\ calls[c].typed = TypedErr("Json")

C11_Witness ==
    \E c \in CallIds :
        /\ calls[c].pc = "done"
        /\ calls[c].got_body
        /\ calls[c].body.wf
        /\ ~calls[c].body.array
        /\ calls[c].body.jsonrpc.kind = "str"
        /\ calls[c].body.id.kind = "absent"
        /\ calls[c].body.result = "match"
        /\ calls[c].decodes = 1
        /\ calls[c].out = Err("Json")
        /\ calls[c].typed = TypedErr("Json")

(***************************************************************************)
(* C12.  A response that decodes holds exactly one of a success payload    *)
(* and an error payload: the Response holds one variant of Outcome with    *)
(* that member's value, the ApiResponse<T> made of it holds that payload   *)
(* and the default in its other field.  A body with neither member does    *)
(* not decode, and of a body with both members the response that decodes   *)
(* holds the one that comes first.                                         *)
(***************************************************************************)
\* The outcome holds the body's result and nothing else, or the body's
\* error and nothing else.
HoldsResult(outcome, body) ==
    /\ outcome.variant = "result"
    /\ body.result # "absent"
    /\ outcome.value = body.result
    /\ outcome.map = ErrAbsent

HoldsError(outcome, body) ==
    /\ outcome.variant = "error"
    /\ body.error.kind # "absent"
    /\ outcome.map = body.error
    /\ outcome.value = "absent"

\* The same for the ApiResponse<T> that parse makes of a Response.
TypedHoldsResult(r, outcome) ==
    /\ outcome.variant = "result"
    /\ r.result = "decoded"
    /\ r.error = ApiError_default

TypedHoldsError(r, outcome) ==
    /\ outcome.variant = "error"
    /\ r.result = "default"
    /\ r.error = [code |-> outcome.map.code, message |-> outcome.map.message]

C12_ExactlyOneOutcome ==
    \A c \in CallIds :
        /\ calls[c].out.tag = "Ok" =>
               /\ calls[c].out.resp.result.variant \in {"result", "error"}
               /\ HoldsResult(calls[c].out.resp.result, calls[c].body)
                      # HoldsError(calls[c].out.resp.result, calls[c].body)
        /\ calls[c].typed.tag = "Ok" =>
               /\ calls[c].out.tag = "Ok"
               /\ TypedHoldsResult(calls[c].typed.resp, calls[c].out.resp.result)
                      # TypedHoldsError(calls[c].typed.resp, calls[c].out.resp.result)
        /\ (calls[c].pc = "done" /\ calls[c].got_body) =>
               /\ (calls[c].body.result = "absent" /\ calls[c].body.error.kind = "absent") =>
                      /\ calls[c].out = Err("Json")
                      /\ calls[c].typed = TypedErr("Json")
               /\ (/\ calls[c].body.result # "absent"
                   /\ calls[c].body.error.kind # "absent"
                   /\ calls[c].out.tag = "Ok") =>
                      calls[c].out.resp.result.variant = calls[c].body.first

C12_Witness ==
    \E c \in CallIds :
        /\ calls[c].pc = "done"
        /\ calls[c].got_body
        /\ calls[c].body.result = "match"
        /\ calls[c].body.error = ErrObject(-1, "repeated commit")
        /\ calls[c].body.first = "error"
        /\ calls[c].out.tag = "Ok"
        /\ calls[c].out.resp.result.variant = "error"
        /\ calls[c].out.resp.result.value = "absent"
        /\ calls[c].typed.tag = "Ok"
        /\ calls[c].typed.resp.result = "default"
        /\ calls[c].typed.resp.error = [code |-> -1, message |-> "repeated commit"]

(***************************************************************************)
(* C13.  Round trip through the envelope codec: the request of every       *)
(* dispatch call, written as JSON under any iteration order of its params  *)
(* and read back from the bytes, is the request again, with the same       *)
(* method and the same params.                                             *)
(***************************************************************************)
\* The request of call c has just been built, or building it panicked.
Built(c) == \/ calls[c].pc = "sent"
            \/ calls[c].pc = "panicked" /\ calls[c].request.panicked

C13_RoundTrip ==
    \A c \in CallIds :
        Built(c) =>
            LET original == parameters(ApiRequest_method(calls[c].request.method),
                                       calls[c].request.params)
            IN /\ \A env \in Envs :
                      from_json(to_json(original, env)) = [ok |-> TRUE, req |-> original]
               /\ calls[c].pc = "sent" =>
                      from_json(calls[c].request.wire) = [ok |-> TRUE, req |-> original]

C13_Witness ==
    \E c \in CallIds :
        /\ calls[c].pc = "sent"
        /\ calls[c].inv = Inv2("add_fee", Quoted, "a")
        /\ \E i \in 1..(Len(calls[c].request.wire) - 5) :
               SubSeq(calls[c].request.wire, i, i + 5) = <<"\\", "\"", "\\", "\\", "\\", "n">>
        /\ from_json(calls[c].request.wire).ok
        /\ from_json(calls[c].request.wire).req.method = "add-fee"
        /\ from_json(calls[c].request.wire).req.params =
               [k \in {"tx-name", "address"} |-> IF k = "tx-name" THEN JStr(Quoted) ELSE JStr("a")]

(***************************************************************************)
(* C14.  No step changes the handle, and what a call holds is a function   *)
(* of the handle, its own arguments and its own reply, whatever the other  *)
(* calls on the handle did: its request is the one its dispatch function   *)
(* computes from the handle, its outcome the decoding of its reply.        *)
(***************************************************************************)
\* The exchange a finished call went through, read from its record.
ExchangeOf(inflight) == IF inflight.got_body THEN Received(inflight.body) ELSE HyperError

PureOfHandleAndReply(h, inflight) ==
    /\ inflight.pc \in {"idle", "called"} => inflight.request = NoRequest
    /\ inflight.request # NoRequest =>
           \E env \in Envs : inflight.request = Invoke(h, inflight.inv, env)
    /\ inflight.pc = "done" =>
           /\ inflight.out = response_future(ExchangeOf(inflight)).out
           /\ inflight.typed = typed_result(ExchangeOf(inflight))

C14_HandleNeverMutated ==
    [][/\ handle' = handle
       /\ \A c \in CallIds :
              calls'[c] # calls[c] => PureOfHandleAndReply(handle, calls'[c])]_vars

C14_Witness ==
    /\ handle = from_https_host(<<"n",".","i","o">>)
    /\ calls[1].pc = "done"
    /\ calls[1].out.tag = "Http"
    /\ calls[2].pc = "done"
    /\ calls[2].out.tag = "Ok"
    /\ calls[2].request.dest = handle.uri
    /\ \A http \in HttpVersions : ParseUri(handle.uri, http).scheme = <<"h","t","t","p","s">>

(***************************************************************************)
(* C15.  In every interleaving of calls on one handle, every call that has *)
(* opened its connection holds a connection no other such call holds, with *)
(* nothing on it but its own request, once that is written; a step of one  *)
(* call's exchange changes that call only; and a call that read a reply    *)
(* read a reply to its own request and holds the decoding of that reply,   *)
(* all requests carrying the id 0.                                         *)
(***************************************************************************)
InFlight(inflight) == inflight.pc \in {"connected", "written", "reading"}

OwnConnection(cs, conns) ==
    /\ \A c \in CallIds :
           InFlight(cs[c]) =>
               /\ cs[c].conn \in ConnIds
               /\ conns[cs[c].conn].open
               /\ conns[cs[c].conn].wire =
                      IF cs[c].pc = "connected" THEN <<>> ELSE cs[c].request.wire
    /\ \A c \in CallIds, d \in CallIds :
           (c # d /\ InFlight(cs[c]) /\ InFlight(cs[d])) => cs[c].conn # cs[d].conn

OwnReply(inflight) ==
    (inflight.pc = "done" /\ inflight.got_body) =>
        /\ inflight.body \in RemoteReplies(inflight.request.method)
        /\ inflight.out = from_slice_Response(inflight.body)
        /\ inflight.typed = parse(inflight.out)
        /\ inflight.body.error.kind = "obj" =>
               /\ inflight.out.resp.result.map.message = inflight.request.method
               /\ inflight.typed.resp.error.message = inflight.request.method

C15_OwnResponse ==
    [][/\ OwnConnection(calls', net')
       /\ \A c \in CallIds : OwnReply(calls'[c])
       /\ \A c \in CallIds, d \in CallIds :
              (c # d /\ calls'[c] # calls[c]) => calls'[d] = calls[d]]_vars

C15_Witness ==
    \E c \in CallIds, d \in CallIds :
        /\ calls[c].pc = "reading"
        /\ calls[c].request.method = "commit-entry"
        /\ net[calls[c].conn].replied
        /\ net[calls[c].conn].reply.error.message = "commit-entry"
        /\ calls[d].pc = "done"
        /\ calls[d].request.method = "reveal-entry"
        /\ calls[d].conn # calls[c].conn
        /\ calls[d].got_body
        /\ calls[d].typed.tag = "Ok"
        /\ calls[d].typed.resp.error.message = "reveal-entry"
        /\ SentEnvelope(c)["id"] = SentEnvelope(d)["id"]

(***************************************************************************)
(* C16.  A call issues one POST and no more: the count of POSTs of a call  *)
(* changes only when fetch first polls the call, from 0 to 1, and stays 1  *)
(* through a transport failure, a decoding failure or an error reply.      *)
(***************************************************************************)
C16_OnePostPerCall ==
    [][\A c \in CallIds :
           /\ calls'[c].posts <= 1
           /\ calls'[c].pc \in Waiting \cup {"reading", "done"} => calls'[c].posts = 1
           /\ calls'[c].posts # calls[c].posts =>
                  /\ calls[c].pc = "called"
                  /\ calls'[c].pc = "sent"]_vars

C16_Witness ==
    \E c \in CallIds, d \in CallIds :
        /\ calls[c].pc = "done" /\ calls[c].out.tag = "Http" /\ calls[c].posts = 1
        /\ calls[d].pc = "done" /\ calls[d].out.tag = "Ok" /\ calls[d].posts = 1
        /\ calls[d].out.resp.result.variant = "error"

(***************************************************************************)
(* C17.  No ordering is enforced: an idle caller can make any call in any  *)
(* state, the body of any call that was made can run in any state, and a   *)
(* reveal_entry call that is dispatched has posted the same reveal-entry   *)
(* envelope to the node daemon whatever calls were made before it.         *)
(***************************************************************************)
C17_NoOrderingEnforced ==
    \A c \in CallIds :
        /\ calls[c].pc = "idle" =>
               \A inv \in ConcurrentInvocations : ENABLED DispatchCall(c, inv)
        /\ calls[c].pc = "called" =>
               ENABLED (\E env \in ConcurrentEnvs : Dispatch(c, env))
        /\ (calls[c].pc = "sent" /\ calls[c].inv.fn = "reveal_entry") =>
               /\ calls[c].request.dest = handle.uri
               /\ SentEnvelope(c) = [k \in {"jsonrpc", "id", "method", "params"} |->
                                        CASE k = "jsonrpc" -> JStr("2.0")
                                          [] k = "id" -> JNum(0)
                                          [] k = "method" -> JStr("reveal-entry")
                                          [] k = "params" ->
                                                 JObj([x \in {"entry"} |-> JStr(calls[c].inv.s1)])]

C17_Witness ==
    \E c \in CallIds :
        /\ Posted(c)
        /\ calls[c].inv.fn = "reveal_entry"
        /\ SentEnvelope(c)["method"] = JStr("reveal-entry")
        /\ \A d \in CallIds \ {c} : calls[d].pc = "idle"

(***************************************************************************)
(* C18.  The outcome does not depend on the status of the reply: a call    *)
(* that read a body holds the decoding of that body, and two calls that    *)
(* read the same body under different statuses hold the same outcome.      *)
(***************************************************************************)
ReadABody(c) == calls[c].pc = "done" /\ calls[c].got_body

C18_StatusIndependent ==
    /\ \A c \in CallIds :
           ReadABody(c) =>
               /\ calls[c].out = from_slice_Response(calls[c].body)
               /\ calls[c].typed = parse(from_slice_Response(calls[c].body))
    /\ \A c \in CallIds, d \in CallIds :
           (ReadABody(c) /\ ReadABody(d) /\ calls[c].body = calls[d].body) =>
               /\ calls[c].out = calls[d].out
               /\ calls[c].typed = calls[d].typed

C18_Witness ==
    \E c \in CallIds, d \in CallIds :
        /\ ReadABody(c)
        /\ ReadABody(d)
        /\ calls[c].status = 200
        /\ calls[d].status = 500
        /\ calls[c].body = calls[d].body
        /\ calls[c].body.error.kind = "obj"
        /\ calls[c].out = calls[d].out
        /\ calls[c].out.tag = "Ok"

(***************************************************************************)
(* C19.  A call whose POST is issued resolves, once the transport answers  *)
(* or fails, with exactly one outcome; while it is pending it holds no     *)
(* outcome, and only a body that was read or a transport failure resolves  *)
(* it (there is no timeout).                                               *)
(***************************************************************************)
Pending(c) == calls[c].pc \in Waiting \cup {"reading"}

Resolved(c) == /\ calls[c].pc = "done"
               /\ calls[c].out.tag \in {"Ok", "Http", "Json"}
               /\ calls[c].out.tag = "Ok" <=> calls[c].got_body /\ calls[c].out.resp # NoResponse

C19_ResolvesWhenTransportDoes ==
    /\ \A c \in CallIds : Pending(c) ~> Resolved(c)
    /\ [](\A c \in CallIds : Pending(c) => calls[c].out.tag = "none")
    /\ [][\A c \in CallIds :
              (calls[c].pc # "done" /\ calls'[c].pc = "done") =>
                  /\ Pending(c)
                  /\ calls'[c].got_body \/ calls'[c].out.tag = "Http"]_vars

C19_Witness ==
    \E c \in CallIds, d \in CallIds :
        /\ Resolved(c)
        /\ calls[c].out.tag = "Ok"
        /\ calls[d].pc = "reading"

(***************************************************************************)
(* C20.  As claimed: from_host and from_https_host give each daemon the    *)
(* port Factom::new() gives it, and from_host("localhost") is the handle   *)
(* of Factom::new().                                                       *)
(***************************************************************************)
SamePortsAsDefault(h) ==
    \A http \in HttpVersions :
        /\ ParseUri(h.uri, http).port = ParseUri(Factom_new.uri, http).port
        /\ ParseUri(h.wallet_uri, http).port = ParseUri(Factom_new.wallet_uri, http).port

C20_HostPortsAsDefault ==
    /\ \A h \in Hosts :
           (IsHostname(h) /\ handle \in {from_host(h), from_https_host(h)}) =>
               SamePortsAsDefault(handle)
    /\ handle = from_host(Localhost) => handle = Factom_new

(***************************************************************************)
(* C21.  As claimed: the request that sign_data(signer, data) posts has    *)
(* the method sign-data and a params mapping with exactly the keys signer  *)
(* and data, bound to the two arguments.                                   *)
(***************************************************************************)
C21_SignDataParams ==
    \A c \in CallIds :
        (Posted(c) /\ calls[c].inv.fn = "sign_data") =>
            /\ MemberText(calls[c].request.wire, "method") = JStr("sign-data")
            /\ SentParams(c) = [k \in {"signer", "data"} |->
                                   IF k = "signer" THEN JStr(calls[c].inv.s1)
                                   ELSE JStr(calls[c].inv.s2)]

(***************************************************************************)
(* C22.  As claimed: the handle of Factom::new(), of from_host and         *)
(* from_https_host on a hostname, and of the derived Default has two URIs  *)
(* that parse, no call on it stops at URI parsing, and Factom::default()   *)
(* is the handle of Factom::new().                                         *)
(***************************************************************************)
PublicHandles == {Factom_new, Factom_default}
                     \cup {from_host(h) : h \in {x \in Hosts : IsHostname(x)}}
                     \cup {from_https_host(h) : h \in {x \in Hosts : IsHostname(x)}}

C22_ConstructedHandlesParse ==
    handle \in PublicHandles =>
        /\ \A http \in HttpVersions : /\ ParseUri(handle.uri, http).ok
                                      /\ ParseUri(handle.wallet_uri, http).ok
        /\ \A c \in CallIds :
               ~(calls[c].pc = "panicked" /\ calls[c].request.panic = "Unable to parse URI")
        /\ handle = Factom_default => handle = Factom_new

====
